---- MODULE Spec2Model ----
(***************************************************************************)
(* State-machine model of the content-intelligence library:                *)
(*   - the Gmail ingestion coordinator (gmailIngest.ts: runGmailIngest,    *)
(*     getExistingGmailIds, parseFromHeader, logIngestRun),                *)
(*   - the calendar deriver (server/db.ts: deriveCalendarData).            *)
(* Strings that the code inspects character by character (from headers,    *)
(* e-mail addresses) are sequences of one-character strings.  Every await  *)
(* of runGmailIngest is one step of a run, so that other requests can      *)
(* interleave exactly where the event loop lets them.                      *)
(***************************************************************************)
EXTENDS Integers, Sequences, FiniteSets, TLC

\* ------------------------------------------------------------------ bounds
MaxRuns == 2        \* coordinator invocations in one behaviour
MaxMail == 2        \* entries the external mail search can list
MaxFaults == 2      \* store and mail-tool calls that fail in one behaviour

\* ------------------------------------------------------- program constants
BatchSize == 100            \* thread ids per gmail_read_threads call
DefaultMaxPerSource == 50   \* opts?.maxPerSource ?? 50

NULL == "null"
NullTime == 0 - 1   \* a timestamp column that holds NULL
NullId == 0 - 1     \* an integer column that holds NULL
Runs == 1 .. MaxRuns

\* ------------------------------------------------------- sequence helpers
Range(s) == {s[i] : i \in DOMAIN s}

\* Array.prototype.filter(Boolean) on strings: "" and undefined are dropped.
Truthy(x) == x # "" /\ x # NULL

\* Array.from(new Set(xs)): first occurrences, in order.
RECURSIVE Distinct(_)
Distinct(s) ==
  IF s = <<>> THEN <<>>
  ELSE LET front == Distinct(SubSeq(s, 1, Len(s) - 1))
           last  == s[Len(s)]
       IN IF last \in Range(front) THEN front ELSE Append(front, last)

\* String.prototype.includes on character sequences.
Includes(hay, needle) ==
  \E i \in 1 .. (Len(hay) - Len(needle) + 1) :
     SubSeq(hay, i, i + Len(needle) - 1) = needle

IsSpace(c) == c = " "

RECURSIVE TrimLeft(_)
TrimLeft(s) ==
  IF s # <<>> /\ IsSpace(s[1]) THEN TrimLeft(Tail(s)) ELSE s

RECURSIVE TrimRight(_)
TrimRight(s) ==
  IF s # <<>> /\ IsSpace(s[Len(s)]) THEN TrimRight(SubSeq(s, 1, Len(s) - 1)) ELSE s

\* String.prototype.trim
Trim(s) == TrimRight(TrimLeft(s))

LowerChar(c) ==
  CASE c = "A" -> "a"
    [] c = "B" -> "b"
    [] c = "N" -> "n"
    [] c = "X" -> "x"
    [] OTHER   -> c

\* String.prototype.toLowerCase
ToLowerCase(s) == [i \in DOMAIN s |-> LowerChar(s[i])]

IsQuote(c) == c = "\"" \/ c = "'"

\* name.replace(/^["']|["']$/g, ""): one leading and one trailing quote go.
StripQuotes(s) ==
  LET a == IF s # <<>> /\ IsQuote(s[1]) THEN Tail(s) ELSE s
  IN IF a # <<>> /\ IsQuote(a[Len(a)]) THEN SubSeq(a, 1, Len(a) - 1) ELSE a

\* The regular expression /^(.+?)\s*<([^>]+)>$/ matched with the lazy name
\* group ending at position j: the blanks after j run up to a "<" at k, the
\* address group k+1 .. Len-1 is non-empty and holds no ">", and a ">" ends
\* the header.
AngleAt(from, j) ==
  {k \in (j + 1) .. (Len(from) - 2) :
      /\ from[k] = "<"
      /\ \A i \in (j + 1) .. (k - 1) : IsSpace(from[i])
      /\ from[Len(from)] = ">"
      /\ \A i \in (k + 1) .. (Len(from) - 1) : from[i] # ">"}

NameEnds(from) == {j \in 1 .. Len(from) : AngleAt(from, j) # {}}

Min(S) == CHOOSE x \in S : \A y \in S : x <= y

parseFromHeader(from) ==
  IF NameEnds(from) # {}
  THEN LET j == Min(NameEnds(from))
           k == CHOOSE x \in AngleAt(from, j) : TRUE
       IN [name    |-> StripQuotes(Trim(SubSeq(from, 1, j))),
           address |-> ToLowerCase(Trim(SubSeq(from, k + 1, Len(from) - 1)))]
  ELSE [name |-> <<>>, address |-> ToLowerCase(Trim(from))]

\* ---------------------------------------------------------- external mail
AddrA == <<"a">>
AddrB == <<"b">>

\* What the external search tool can list: a message of source a written
\* "N <A>", a message of the same thread whose address "xa" contains source
\* a's address, and an entry that carries no id.
\* Msg1 has a preview and a body, Msg2 has neither.
Msg1 == [id |-> "g1", threadId |-> "t1", from |-> <<"N", " ", "<", "A", ">">>,
         snippet |-> "s1", body |-> "b1"]
Msg2 == [id |-> "g2", threadId |-> "t1", from |-> <<"x", "a">>,
         snippet |-> NULL, body |-> NULL]
Msg0 == [id |-> "",   threadId |-> "t2", from |-> <<"b">>,
         snippet |-> "s0", body |-> "b0"]

\* The listings the tool can produce, each growing in its own order: two
\* messages of one source, one message listed twice, an entry without id.
Feeds == {<<Msg1, Msg2, Msg0>>, <<Msg1, Msg1, Msg2>>, <<Msg0, Msg1, Msg2>>}

FeedPrefix(feed, n) == [i \in 1 .. n |-> feed[((i - 1) % Len(feed)) + 1]]

MaxPerSourceValues == {1, DefaultMaxPerSource}

VARIABLES
  db,                 \* _db of server/db.ts: NULL until the first connect
  newsletterSources,  \* table newsletter_sources, row i has id i
  rawEmails,          \* table raw_emails (the pending-review queue), row i has id i
  ingestLog,          \* table ingest_log, row i has id i
  gmailMessages,      \* what the external mail search lists, newest last
  now,                \* the last reading of the clock (new Date()); every
                      \* reading is later than the one before
  faults,             \* how many calls have failed so far
  pc,                 \* pc[r]: where invocation r of runGmailIngest stands
  run,                \* run[r]: the locals of invocation r
  calArticles,        \* deriveCalendarData: the argument allArticles
  calStatuses,        \* deriveCalendarData: the argument statuses
  calDrafts,          \* deriveCalendarData: the argument drafts
  calendar,           \* deriveCalendarData: the array returned
  calPc,              \* "input" before the call, "derived" after it
  articles,           \* table articles: the rows created from queue entries
  approve,            \* the inbox.approve call in flight, if any
  inboxReply,         \* the answer to the last webhook post or inbox call
  inboxCalls,         \* how many webhook posts and inbox calls were made
  contentRepurposing, \* table content_repurposing, row i has id i
  statusCalls,        \* the calendar.updateStatus calls made, oldest first
  rateLimitBuckets,   \* rateLimitBuckets of routers.ts: key -> timestamps
  rateCalls,          \* the enforceRateLimit calls made, oldest first
  bulk                \* the last inbox.bulkProcess call: its locals while it
                      \* runs, what it returned afterwards

vars == <<db, newsletterSources, rawEmails, ingestLog, gmailMessages, now, faults,
          pc, run, calArticles, calStatuses, calDrafts, calendar, calPc,
          articles, approve, inboxReply, inboxCalls, contentRepurposing, statusCalls,
          rateLimitBuckets, rateCalls, bulk>>

ingestVars == <<db, newsletterSources, rawEmails, ingestLog, gmailMessages, now,
                faults, pc, run>>
calVars == <<calArticles, calStatuses, calDrafts, calendar, calPc>>
inboxVars == <<articles, approve, inboxReply, inboxCalls, bulk>>
statusVars == <<contentRepurposing, statusCalls>>

\* No inbox.approve call is in flight.
NoApprove == [pc |-> "idle", id |-> 0, articleId |-> 0]
\* Nothing was answered yet.
NoReply == [op |-> "none", code |-> "none", id |-> 0]

\* No inbox.bulkProcess call was made.
\* last and lastRejected tell which email the call handled last and whether
\* the status write in its catch block was rejected.
NoBulk ==
  [pc |-> "idle", batchSize |-> 0, maxEmails |-> 0, pending |-> <<>>, i |-> 0,
   done |-> {}, failed |-> FALSE, saved |-> 0, discarded |-> 0, errors |-> 0,
   last |-> 0, lastRejected |-> FALSE]

rateVars == <<rateLimitBuckets, rateCalls>>

\* The keys enforceRateLimit is called with.
RateKeys == {"k1", "k2"}

\* The routers at rest.
RoutersIdle ==
  /\ bulk = NoBulk
  /\ rateLimitBuckets = [key \in RateKeys |-> <<>>]
  /\ rateCalls = <<>>
  /\ articles = <<>>
  /\ approve = NoApprove
  /\ inboxReply = NoReply
  /\ inboxCalls = 0
  /\ contentRepurposing = <<>>
  /\ statusCalls = <<>>

\* A call to the store or to the mail tool fails / succeeds.
Fails == faults < MaxFaults /\ faults' = faults + 1
Succeeds == faults' = faults

EmptyResult ==
  [emailsFound |-> 0, emailsNew |-> 0, emailsSkipped |-> 0, errors |-> <<>>]

IdleRun ==
  [maxPerSource |-> 0, sources |-> <<>>, messages |-> <<>>, existingIds |-> {},
   newMessages |-> <<>>, threadIds |-> <<>>, threads |-> <<>>, i |-> 0, idx |-> 0,
   source |-> 0, result |-> EmptyResult, logStatus |-> NULL,
   path |-> "none", auditFailed |-> FALSE, mailAtStart |-> 0]

\* What is left of an invocation once it has returned: the arguments it was
\* called with, the IngestResult it returned, the return statement taken and
\* whether logIngestRun printed "Failed to write ingest log".
Returned(rec, path) ==
  [IdleRun EXCEPT !.maxPerSource = rec.maxPerSource, !.mailAtStart = rec.mailAtStart,
                  !.result = rec.result, !.path = path,
                  !.auditFailed = rec.auditFailed]

\* ... and once it has rejected: no result.
Threw(rec, path) ==
  [IdleRun EXCEPT !.maxPerSource = rec.maxPerSource, !.mailAtStart = rec.mailAtStart,
                  !.path = path]

SourceRow(id, addr, active) ==
  [id |-> id, emailAddress |-> addr, isActive |-> active,
   lastIngestedAt |-> NullTime, totalIngested |-> 0]

Init ==
  /\ db = NULL
  /\ \E active \in {<<TRUE, TRUE>>, <<TRUE, FALSE>>, <<FALSE, FALSE>>} :
        newsletterSources = <<SourceRow(1, AddrA, active[1]), SourceRow(2, AddrB, active[2])>>
  /\ rawEmails = <<>>
  /\ ingestLog = <<>>
  /\ gmailMessages = <<>>
  /\ now = 0
  /\ faults = 0
  /\ pc = [r \in Runs |-> "idle"]
  /\ run = [r \in Runs |-> IdleRun]
  /\ calArticles = <<>>
  /\ calStatuses = <<>>
  /\ calDrafts = <<>>
  /\ calendar = <<>>
  /\ calPc = "input"
  /\ RoutersIdle

\* ------------------------------------------------ the external mail tool
\* gmail_search_messages with q = (from:a OR from:b): an entry is listed
\* when its From header mentions one of the queried addresses; at most
\* max_results entries come back.
GmailMatches(m, sources) ==
  \E i \in DOMAIN sources : Includes(ToLowerCase(m.from), sources[i].emailAddress)

\* An entry as the search lists it: the preview, not the body.
Listed(m) == [m EXCEPT !.body = NULL]

GmailSearch(mail, sources, maxResults) ==
  LET hits == SelectSeq(mail, LAMBDA m : GmailMatches(m, sources))
      n    == IF Len(hits) < maxResults THEN Len(hits) ELSE maxResults
  IN [i \in 1 .. n |-> Listed(hits[i])]

\* gmail_read_threads: for every requested thread, its messages.
GmailReadThreads(mail, batch) ==
  [t \in Range(batch) |-> SelectSeq(mail, LAMBDA m : m.threadId = t)]

\* --------------------------------------------- runGmailIngest, the pieces
ActiveSources(rows) == SelectSeq(rows, LAMBDA s : s.isActive)

GmailIds(messages) ==
  SelectSeq([i \in DOMAIN messages |-> messages[i].id], Truthy)

\* Mutant: the lookup of stored identifiers finds nothing.
getExistingGmailIdsNone(gmailIds, rows) == {}

\* SELECT gmailMessageId FROM raw_emails WHERE gmailMessageId IN (gmailIds),
\* then new Set(rows.map(...).filter(Boolean)).
getExistingGmailIds(gmailIds, rows) ==
  IF Len(gmailIds) = 0 THEN {}
  ELSE {id \in {rows[i].gmailMessageId : i \in DOMAIN rows} :
           id \in Range(gmailIds) /\ Truthy(id)}

\* Mutant: the filter forgets the stored identifiers.
NewMessagesNoDedup(messages, existingIds) ==
  SelectSeq(messages, LAMBDA m : Truthy(m.id))

\* Mutant: the filter forgets the "m.id &&" guard.
NewMessagesNoIdGuard(messages, existingIds) ==
  SelectSeq(messages, LAMBDA m : m.id \notin existingIds)

NewMessages(messages, existingIds) ==
  SelectSeq(messages, LAMBDA m : Truthy(m.id) /\ m.id \notin existingIds)

\* Mutant: every found message is counted as skipped.
SkippedAll(messages, newMessages) == Len(messages)

Skipped(messages, newMessages) == Len(messages) - Len(newMessages)

ThreadIds(newMessages) ==
  Distinct(SelectSeq([i \in DOMAIN newMessages |-> newMessages[i].threadId], Truthy))

\* threads[msg.threadId] ?? [] and .find((m) => m.id === msg.id) ?? msg
FullMessage(threads, msg) ==
  LET threadMessages == IF msg.threadId \in DOMAIN threads
                        THEN threads[msg.threadId] ELSE <<>>
      hits == SelectSeq(threadMessages, LAMBDA m : m.id = msg.id)
  IN IF hits # <<>> THEN hits[1] ELSE msg

\* a ?? b ?? c ?? ""
Coalesce(a, b, c) ==
  IF a # NULL THEN a ELSE IF b # NULL THEN b ELSE IF c # NULL THEN c ELSE ""

\* Mutant: rawText is the body or nothing.
EmailDataBodyOnly(threads, msg) ==
  LET fullMsg == FullMessage(threads, msg)
      parsed  == parseFromHeader(fullMsg.from)
  IN [fromAddress    |-> parsed.address,
      fromName       |-> parsed.name,
      rawText        |-> Coalesce(fullMsg.body, NULL, NULL),
      gmailMessageId |-> msg.id,
      gmailThreadId  |-> msg.threadId]

EmailData(threads, msg) ==
  LET fullMsg == FullMessage(threads, msg)
      parsed  == parseFromHeader(fullMsg.from)
  IN [fromAddress    |-> parsed.address,
      fromName       |-> parsed.name,
      rawText        |-> Coalesce(fullMsg.body, fullMsg.snippet, msg.snippet),
      gmailMessageId |-> msg.id,
      gmailThreadId  |-> msg.threadId]

\* sources.find(s => s.emailAddress === fromAddress
\*                   || fromAddress.includes(s.emailAddress))
SourceMatches(s, fromAddress) ==
  s.emailAddress = fromAddress \/ Includes(fromAddress, s.emailAddress)

\* The position in sources of the row that find returns, 0 for undefined.
FindSource(sources, fromAddress) ==
  LET hits == {k \in DOMAIN sources : SourceMatches(sources[k], fromAddress)}
  IN IF hits # {} THEN Min(hits) ELSE 0

\* totalIngested: source.totalIngested + 1, source being the row as it was
\* loaded when the run started.
NextTotalIngested(source) == source.totalIngested + 1

\* Mutant: partial and error are exchanged.
RunStatusSwapped(result) ==
  IF Len(result.errors) = 0 THEN "success"
  ELSE IF result.emailsNew > 0 THEN "error" ELSE "partial"

RunStatus(result) ==
  IF Len(result.errors) = 0 THEN "success"
  ELSE IF result.emailsNew > 0 THEN "partial" ELSE "error"

\* result.errors.join("; ") || undefined, then errorMessage ?? null.  The
\* joined text is the list of its parts; the column is <<>> for NULL and
\* <<text>> otherwise, and the empty text is falsy.
JoinErrors(errors) == IF errors = <<>> THEN <<>> ELSE <<errors>>

PushError(result, e) == [result EXCEPT !.errors = Append(@, e)]

\* Mutant: the loop ends after the message in hand.
AfterMessageStops(rec) ==
  [next |-> "log",
   rec  |-> [rec EXCEPT !.idx = @ + 1, !.source = 0,
                        !.logStatus = RunStatus(rec.result)]]

\* The end of one pass of "for (const msg of newMessages)": the next
\* message, or the status computation once the list is exhausted.
AfterMessage(rec) ==
  IF rec.idx < Len(rec.newMessages)
  THEN [next |-> "insert",
        rec  |-> [rec EXCEPT !.idx = @ + 1, !.source = 0]]
  ELSE [next |-> "log",
        rec  |-> [rec EXCEPT !.idx = @ + 1, !.source = 0,
                             !.logStatus = RunStatus(rec.result)]]

Finished(r) == pc[r] \in {"done", "threw"}

\* ------------------------------------------------- runGmailIngest, steps
StartRun(r) ==
  /\ pc[r] = "idle"
  /\ \A q \in Runs : q < r => pc[q] # "idle"
  /\ \E n \in MaxPerSourceValues :
        run' = [q \in Runs |->
                  IF q = r THEN [IdleRun EXCEPT !.maxPerSource = n,
                                                !.mailAtStart = Len(gmailMessages)]
                  ELSE IF q < r - 1 THEN IdleRun   \* only the last two results are kept
                  ELSE run[q]]
  /\ pc' = [pc EXCEPT ![r] = "getDb"]
  /\ UNCHANGED <<db, newsletterSources, rawEmails, ingestLog, gmailMessages, now, faults>>
  /\ UNCHANGED calVars
  /\ UNCHANGED <<inboxVars, statusVars, rateVars>>

\* A run that starts while no other run is in flight.
SeqStartRun(r) ==
  /\ \A q \in Runs : q # r => (pc[q] = "idle" \/ Finished(q))
  /\ StartRun(r)

\* getDb(): the cached handle, or one connect attempt that may fail.
GetDb(r) ==
  /\ pc[r] = "getDb"
  /\ \E handle \in (IF db # NULL THEN {db} ELSE {NULL, "conn"}) :
        /\ db' = handle
        /\ IF handle = NULL
           THEN /\ Fails
                /\ run' = [run EXCEPT ![r] =
                           Returned([run[r] EXCEPT !.result = PushError(@, <<"db">>)],
                                    "noDb")]
                /\ pc' = [pc EXCEPT ![r] = "done"]
           ELSE /\ Succeeds
                /\ pc' = [pc EXCEPT ![r] = "loadSources"]
                /\ UNCHANGED run
  /\ UNCHANGED <<newsletterSources, rawEmails, ingestLog, gmailMessages, now>>
  /\ UNCHANGED calVars
  /\ UNCHANGED <<inboxVars, statusVars, rateVars>>

LoadSources(r) ==
  /\ pc[r] = "loadSources"
  /\ \/ LET sources == ActiveSources(newsletterSources)
        IN /\ Succeeds
           /\ IF sources = <<>>
              THEN /\ run' = [run EXCEPT ![r] = Returned(run[r], "noSources")]
                   /\ pc' = [pc EXCEPT ![r] = "done"]
              ELSE /\ run' = [run EXCEPT ![r].sources = sources]
                   /\ pc' = [pc EXCEPT ![r] = "search"]
     \/ \* the select rejects: nothing catches it
        /\ Fails
        /\ pc' = [pc EXCEPT ![r] = "threw"]
        /\ run' = [run EXCEPT ![r] = Threw(run[r], "loadSources")]
  /\ UNCHANGED <<db, newsletterSources, rawEmails, ingestLog, gmailMessages, now>>
  /\ UNCHANGED calVars
  /\ UNCHANGED <<inboxVars, statusVars, rateVars>>

\* Mutant: a failed search returns at once, without an audit entry.
SearchNoAuditOnFailure(r) ==
  /\ pc[r] = "search"
  /\ \/ LET messages == GmailSearch(gmailMessages, run[r].sources,
                                    run[r].maxPerSource * Len(run[r].sources))
        IN /\ Succeeds
           /\ run' = [run EXCEPT ![r].messages = messages,
                                 ![r].result.emailsFound = Len(messages),
                                 ![r].logStatus =
                                    IF messages = <<>> THEN "success" ELSE NULL,
                                 ![r].path =
                                    IF messages = <<>> THEN "noMessages" ELSE "none"]
           /\ pc' = [pc EXCEPT ![r] = IF messages = <<>> THEN "log" ELSE "dedup"]
     \/ /\ Fails
        /\ run' = [run EXCEPT ![r] =
                     Returned([run[r] EXCEPT !.result = PushError(@, <<"search">>)],
                              "searchFailed")]
        /\ pc' = [pc EXCEPT ![r] = "done"]
  /\ UNCHANGED <<db, newsletterSources, rawEmails, ingestLog, gmailMessages, now>>
  /\ UNCHANGED calVars
  /\ UNCHANGED <<inboxVars, statusVars, rateVars>>

\* Mutant: a failed search is logged with the status of an empty result.
SearchFailureLoggedAsSuccess(r) ==
  /\ pc[r] = "search"
  /\ \/ LET messages == GmailSearch(gmailMessages, run[r].sources,
                                    run[r].maxPerSource * Len(run[r].sources))
        IN /\ Succeeds
           /\ run' = [run EXCEPT ![r].messages = messages,
                                 ![r].result.emailsFound = Len(messages),
                                 ![r].logStatus =
                                    IF messages = <<>> THEN "success" ELSE NULL,
                                 ![r].path =
                                    IF messages = <<>> THEN "noMessages" ELSE "none"]
           /\ pc' = [pc EXCEPT ![r] = IF messages = <<>> THEN "log" ELSE "dedup"]
     \/ /\ Fails
        /\ run' = [run EXCEPT ![r].result = PushError(@, <<"search">>),
                              ![r].logStatus = "success",
                              ![r].path = "searchFailed"]
        /\ pc' = [pc EXCEPT ![r] = "log"]
  /\ UNCHANGED <<db, newsletterSources, rawEmails, ingestLog, gmailMessages, now>>
  /\ UNCHANGED calVars
  /\ UNCHANGED <<inboxVars, statusVars, rateVars>>

Search(r) ==
  /\ pc[r] = "search"
  /\ \/ LET messages == GmailSearch(gmailMessages, run[r].sources,
                                    run[r].maxPerSource * Len(run[r].sources))
        IN /\ Succeeds
           /\ run' = [run EXCEPT ![r].messages = messages,
                                 ![r].result.emailsFound = Len(messages),
                                 ![r].logStatus =
                                    IF messages = <<>> THEN "success" ELSE NULL,
                                 ![r].path =
                                    IF messages = <<>> THEN "noMessages" ELSE "none"]
           /\ pc' = [pc EXCEPT ![r] = IF messages = <<>> THEN "log" ELSE "dedup"]
     \/ \* callGmailMcp rejects
        /\ Fails
        /\ run' = [run EXCEPT ![r].result = PushError(@, <<"search">>),
                              ![r].logStatus = "error",
                              ![r].path = "searchFailed"]
        /\ pc' = [pc EXCEPT ![r] = "log"]
  /\ UNCHANGED <<db, newsletterSources, rawEmails, ingestLog, gmailMessages, now>>
  /\ UNCHANGED calVars
  /\ UNCHANGED <<inboxVars, statusVars, rateVars>>

\* getExistingGmailIds and the filter that follows it, with no await in
\* between.  With no id to look up the store is not queried.
Dedup(r) ==
  /\ pc[r] = "dedup"
  /\ LET gmailIds == GmailIds(run[r].messages)
     IN \/ LET existingIds == getExistingGmailIds(gmailIds, rawEmails)
               newMessages == NewMessages(run[r].messages, existingIds)
               threadIds   == ThreadIds(newMessages)
           IN /\ Succeeds
              /\ run' = [run EXCEPT
                    ![r].existingIds = existingIds,
                    ![r].newMessages = newMessages,
                    ![r].result.emailsSkipped = Skipped(run[r].messages, newMessages),
                    ![r].threadIds = threadIds,
                    ![r].idx = IF newMessages = <<>> THEN 0 ELSE 1,
                    ![r].logStatus = IF newMessages = <<>> THEN "success" ELSE NULL,
                    ![r].path = IF newMessages = <<>> THEN "noNew" ELSE "full"]
              /\ pc' = [pc EXCEPT ![r] =
                          IF newMessages = <<>> THEN "log"
                          ELSE IF threadIds = <<>> THEN "insert" ELSE "threads"]
        \/ \* the select rejects: nothing catches it
           /\ Len(gmailIds) > 0
           /\ Fails
           /\ pc' = [pc EXCEPT ![r] = "threw"]
           /\ run' = [run EXCEPT ![r] = Threw(run[r], "getExistingGmailIds")]
  /\ UNCHANGED <<db, newsletterSources, rawEmails, ingestLog, gmailMessages, now>>
  /\ UNCHANGED calVars
  /\ UNCHANGED <<inboxVars, statusVars, rateVars>>

\* One pass of the batch loop around gmail_read_threads; a rejected call
\* leaves the loop with the threads read so far.
ReadThreads(r) ==
  /\ pc[r] = "threads"
  /\ \/ LET last  == IF run[r].i + BatchSize < Len(run[r].threadIds)
                     THEN run[r].i + BatchSize ELSE Len(run[r].threadIds)
            batch == SubSeq(run[r].threadIds, run[r].i + 1, last)
            got   == GmailReadThreads(gmailMessages, batch)
            old   == run[r].threads
        IN /\ Succeeds
           /\ run' = [run EXCEPT
                 ![r].threads = [t \in DOMAIN old \cup DOMAIN got |->
                                   IF t \in DOMAIN got THEN got[t] ELSE old[t]],
                 ![r].i = @ + BatchSize]
           /\ pc' = [pc EXCEPT ![r] =
                       IF run[r].i + BatchSize < Len(run[r].threadIds)
                       THEN "threads" ELSE "insert"]
     \/ \* callGmailMcp rejects: caught, warned about
        /\ Fails
        /\ pc' = [pc EXCEPT ![r] = "insert"]
        /\ UNCHANGED run
  /\ UNCHANGED <<db, newsletterSources, rawEmails, ingestLog, gmailMessages, now>>
  /\ UNCHANGED calVars
  /\ UNCHANGED <<inboxVars, statusVars, rateVars>>

\* db.insert(rawEmails).values(emailData), result.emailsNew++ and the
\* lookup of the matching source.
InsertMessage(r) ==
  /\ pc[r] = "insert"
  /\ LET msg  == run[r].newMessages[run[r].idx]
         data == EmailData(run[r].threads, msg)
     IN \/ LET source == FindSource(run[r].sources, data.fromAddress)
               rec    == [run[r] EXCEPT !.result.emailsNew = @ + 1]
           IN /\ Succeeds
              /\ rawEmails' = Append(rawEmails,
                    [id |-> Len(rawEmails) + 1,
                     fromAddress |-> data.fromAddress,
                     fromName |-> data.fromName,
                     rawText |-> data.rawText,
                     gmailMessageId |-> data.gmailMessageId,
                     gmailThreadId |-> data.gmailThreadId,
                     status |-> "pending",
                     errorMessage |-> NULL,
                     articleId |-> NullId,
                     byRun |-> r])
              /\ IF source # 0
                 THEN /\ run' = [run EXCEPT ![r] = [rec EXCEPT !.source = source]]
                      /\ pc' = [pc EXCEPT ![r] = "updateSource"]
                 ELSE /\ run' = [run EXCEPT ![r] = AfterMessage(rec).rec]
                      /\ pc' = [pc EXCEPT ![r] = AfterMessage(rec).next]
        \/ \* the insert rejects
           LET rec == [run[r] EXCEPT !.result = PushError(@, <<"insert", msg.id>>)]
           IN /\ Fails
              /\ run' = [run EXCEPT ![r] = AfterMessage(rec).rec]
              /\ pc' = [pc EXCEPT ![r] = AfterMessage(rec).next]
              /\ UNCHANGED rawEmails
  /\ UNCHANGED <<db, newsletterSources, ingestLog, gmailMessages, now>>
  /\ UNCHANGED calVars
  /\ UNCHANGED <<inboxVars, statusVars, rateVars>>

\* Mutant: the update has no where clause.
UpdateSourceAll(r) ==
  /\ pc[r] = "updateSource"
  /\ LET source == run[r].sources[run[r].source]
         msg    == run[r].newMessages[run[r].idx]
     IN \/ /\ Succeeds
           /\ now' = now + 1
           /\ newsletterSources' =
                 [n \in DOMAIN newsletterSources |->
                    [newsletterSources[n] EXCEPT
                        !.lastIngestedAt = now',
                        !.totalIngested = NextTotalIngested(source)]]
           /\ run' = [run EXCEPT ![r] = AfterMessage(run[r]).rec]
           /\ pc' = [pc EXCEPT ![r] = AfterMessage(run[r]).next]
        \/ \* the update rejects: caught by the same try as the insert
           LET rec == [run[r] EXCEPT !.result = PushError(@, <<"insert", msg.id>>)]
           IN /\ Fails
              /\ run' = [run EXCEPT ![r] = AfterMessage(rec).rec]
              /\ pc' = [pc EXCEPT ![r] = AfterMessage(rec).next]
              /\ UNCHANGED <<newsletterSources, now>>
  /\ UNCHANGED <<db, rawEmails, ingestLog, gmailMessages>>
  /\ UNCHANGED calVars
  /\ UNCHANGED <<inboxVars, statusVars, rateVars>>

\* db.update(newsletterSources).set({lastIngestedAt, totalIngested})
\*   .where(eq(newsletterSources.id, source.id))
UpdateSource(r) ==
  /\ pc[r] = "updateSource"
  /\ LET source == run[r].sources[run[r].source]
         msg    == run[r].newMessages[run[r].idx]
     IN \/ /\ Succeeds
           /\ now' = now + 1
           /\ newsletterSources' =
                 [newsletterSources EXCEPT ![source.id] =
                    [@ EXCEPT !.lastIngestedAt = now',
                              !.totalIngested = NextTotalIngested(source)]]
           /\ run' = [run EXCEPT ![r] = AfterMessage(run[r]).rec]
           /\ pc' = [pc EXCEPT ![r] = AfterMessage(run[r]).next]
        \/ \* the update rejects: caught by the same try as the insert
           LET rec == [run[r] EXCEPT !.result = PushError(@, <<"insert", msg.id>>)]
           IN /\ Fails
              /\ run' = [run EXCEPT ![r] = AfterMessage(rec).rec]
              /\ pc' = [pc EXCEPT ![r] = AfterMessage(rec).next]
              /\ UNCHANGED <<newsletterSources, now>>
  /\ UNCHANGED <<db, rawEmails, ingestLog, gmailMessages>>
  /\ UNCHANGED calVars
  /\ UNCHANGED <<inboxVars, statusVars, rateVars>>

LogRow(r, status, result, errorMessage) ==
  [id |-> Len(ingestLog) + 1,
   status |-> status,
   emailsFound |-> result.emailsFound,
   emailsNew |-> result.emailsNew,
   emailsSkipped |-> result.emailsSkipped,
   errorMessage |-> errorMessage,
   byRun |-> r]

\* Mutant: a rejected audit insert is reported in errors.
LogIngestRunSurfaces(r) ==
  /\ pc[r] = "log"
  /\ \/ /\ Succeeds
        /\ ingestLog' = Append(ingestLog,
              LogRow(r, run[r].logStatus, run[r].result, JoinErrors(run[r].result.errors)))
        /\ run' = [run EXCEPT ![r] = Returned(run[r], run[r].path)]
     \/ /\ Fails
        /\ UNCHANGED ingestLog
        /\ run' = [run EXCEPT ![r] =
                     Returned([run[r] EXCEPT !.auditFailed = TRUE,
                                             !.result = PushError(@, <<"log">>)],
                              run[r].path)]
  /\ pc' = [pc EXCEPT ![r] = "done"]
  /\ UNCHANGED <<db, newsletterSources, rawEmails, gmailMessages, now>>
  /\ UNCHANGED calVars
  /\ UNCHANGED <<inboxVars, statusVars, rateVars>>

\* logIngestRun and the return that follows it; a rejected insert is
\* swallowed.
LogIngestRun(r) ==
  /\ pc[r] = "log"
  /\ \/ /\ Succeeds
        /\ ingestLog' = Append(ingestLog,
              LogRow(r, run[r].logStatus, run[r].result, JoinErrors(run[r].result.errors)))
        /\ run' = [run EXCEPT ![r] = Returned(run[r], run[r].path)]
     \/ \* the insert rejects: caught, logged to the console
        /\ Fails
        /\ UNCHANGED ingestLog
        /\ run' = [run EXCEPT ![r] =
                     Returned([run[r] EXCEPT !.auditFailed = TRUE], run[r].path)]
  /\ pc' = [pc EXCEPT ![r] = "done"]
  /\ UNCHANGED <<db, newsletterSources, rawEmails, gmailMessages, now>>
  /\ UNCHANGED calVars
  /\ UNCHANGED <<inboxVars, statusVars, rateVars>>

\* ---------------------------------------------------------- environment
MailArrives ==
  /\ Len(gmailMessages) < MaxMail
  /\ \E feed \in Feeds :
        /\ gmailMessages = FeedPrefix(feed, Len(gmailMessages))
        /\ gmailMessages' = FeedPrefix(feed, Len(gmailMessages) + 1)
  /\ UNCHANGED <<db, newsletterSources, rawEmails, ingestLog, now, faults, pc, run>>
  /\ UNCHANGED calVars
  /\ UNCHANGED <<inboxVars, statusVars, rateVars>>

RunStep(r) ==
  \/ GetDb(r)
  \/ LoadSources(r)
  \/ Search(r)
  \/ Dedup(r)
  \/ ReadThreads(r)
  \/ InsertMessage(r)
  \/ UpdateSource(r)
  \/ LogIngestRun(r)

\* Invocations may overlap: ingest.runNow takes no lock.
Next ==
  \/ \E r \in Runs : StartRun(r)
  \/ \E r \in Runs : RunStep(r)
  \/ MailArrives

Spec == Init /\ [][Next]_vars

\* Invocations one after the other.
SeqNext ==
  \/ \E r \in Runs : SeqStartRun(r)
  \/ \E r \in Runs : RunStep(r)
  \/ MailArrives

SeqSpec == Init /\ [][SeqNext]_vars

\* ================================================= the content calendar
\* deriveCalendarData of server/db.ts, a pure function of three arrays.

MaxStatuses == 2    \* status records passed to one call
MaxDrafts == 1      \* draft records passed to one call

\* const FORMATS: CalendarFormat[]
FORMATS == <<"video_script", "linkedin_post", "instagram_caption", "blog_post">>

CalendarStatuses == {"untouched", "in_progress", "done"}

\* Mutant: the legacy format is kept as it is.
normalizeFormatKeepsLegacy(format) == format

normalizeFormat(format) ==
  IF format = "blog_outline" THEN "blog_post" ELSE format

\* a.updatedAt?.getTime() ?? 0
Ts(s) == IF s.updatedAt = NullTime THEN 0 ELSE s.updatedAt

\* Mutant: s goes in front of the records of its own age.
InsertSortedBeforeEqual(sorted, s) ==
  LET k == Cardinality({j \in DOMAIN sorted : Ts(sorted[j]) > Ts(s)})
  IN SubSeq(sorted, 1, k) \o <<s>> \o SubSeq(sorted, k + 1, Len(sorted))

\* One step of the stable sort by (a, b) => bTs - aTs: s goes behind every
\* record that is not older.
InsertSorted(sorted, s) ==
  LET k == Cardinality({j \in DOMAIN sorted : Ts(sorted[j]) >= Ts(s)})
  IN SubSeq(sorted, 1, k) \o <<s>> \o SubSeq(sorted, k + 1, Len(sorted))

\* Mutant: the records are taken in input order.
SortedStatusesInInputOrder(statuses) == statuses

\* [...statuses].sort(...): newest first, equal timestamps in input order.
RECURSIVE SortedStatuses(_)
SortedStatuses(statuses) ==
  IF statuses = <<>> THEN <<>>
  ELSE InsertSorted(SortedStatuses(SubSeq(statuses, 1, Len(statuses) - 1)),
                    statuses[Len(statuses)])

\* `${articleId}:${format}`
CalKey(articleId, format) == <<articleId, format>>

\* for (const s of sortedStatuses) if (!statusMap.has(key)) statusMap.set(key, s.status)
RECURSIVE StatusMap(_)
StatusMap(sorted) ==
  IF sorted = <<>> THEN <<>>
  ELSE LET s   == sorted[Len(sorted)]
           map == StatusMap(SubSeq(sorted, 1, Len(sorted) - 1))
           key == CalKey(s.articleId, normalizeFormat(s.format))
       IN IF key \in DOMAIN map THEN map ELSE (key :> s.status) @@ map

\* for (const d of drafts) draftCountMap.set(key, (draftCountMap.get(key) ?? 0) + 1)
RECURSIVE DraftCountMap(_)
DraftCountMap(drafts) ==
  IF drafts = <<>> THEN <<>>
  ELSE LET d   == drafts[Len(drafts)]
           map == DraftCountMap(SubSeq(drafts, 1, Len(drafts) - 1))
           key == CalKey(d.articleId, normalizeFormat(d.format))
       IN (key :> (IF key \in DOMAIN map THEN map[key] ELSE 0) + 1) @@ map

\* map.get(key) ?? default
MapGet(map, key, default) == IF key \in DOMAIN map THEN map[key] ELSE default

\* Mutant: a slot without explicit status is never inferred from its drafts.
DerivedStatusNoInference(explicitStatus, draftCount) ==
  IF explicitStatus # NULL THEN explicitStatus ELSE "untouched"

\* Mutant: a slot with drafts is in progress whatever its explicit status.
DerivedStatusDraftsFirst(explicitStatus, draftCount) ==
  IF draftCount > 0 THEN "in_progress"
  ELSE IF explicitStatus # NULL THEN explicitStatus ELSE "untouched"

\* explicitStatus ?? (draftCount > 0 ? "in_progress" : "untouched")
DerivedStatus(explicitStatus, draftCount) ==
  IF explicitStatus # NULL THEN explicitStatus
  ELSE IF draftCount > 0 THEN "in_progress" ELSE "untouched"

\* Mutant: a format without status record and without draft gets no key.
RECURSIVE CalendarSlotsWithData(_, _, _, _)
CalendarSlotsWithData(a, statusMap, draftCountMap, n) ==
  IF n = 0 THEN [statObj |-> <<>>, countObj |-> <<>>]
  ELSE LET prev           == CalendarSlotsWithData(a, statusMap, draftCountMap, n - 1)
           fmt            == FORMATS[n]
           key            == CalKey(a.id, fmt)
           draftCount     == MapGet(draftCountMap, key, 0)
           explicitStatus == MapGet(statusMap, key, NULL)
       IN IF explicitStatus = NULL /\ draftCount = 0 THEN prev
          ELSE [statObj  |-> (fmt :> DerivedStatus(explicitStatus, draftCount))
                                @@ prev.statObj,
                countObj |-> (fmt :> draftCount) @@ prev.countObj]

\* statObj and countObj after the first n rounds of for (const fmt of FORMATS).
RECURSIVE CalendarSlots(_, _, _, _)
CalendarSlots(a, statusMap, draftCountMap, n) ==
  IF n = 0 THEN [statObj |-> <<>>, countObj |-> <<>>]
  ELSE LET prev           == CalendarSlots(a, statusMap, draftCountMap, n - 1)
           fmt            == FORMATS[n]
           key            == CalKey(a.id, fmt)
           draftCount     == MapGet(draftCountMap, key, 0)
           explicitStatus == MapGet(statusMap, key, NULL)
       IN [statObj  |-> (fmt :> DerivedStatus(explicitStatus, draftCount))
                           @@ prev.statObj,
           countObj |-> (fmt :> draftCount) @@ prev.countObj]

deriveCalendarData(allArticles, statuses, drafts) ==
  LET statusMap     == StatusMap(SortedStatuses(statuses))
      draftCountMap == DraftCountMap(drafts)
  IN [i \in DOMAIN allArticles |->
        LET a     == allArticles[i]
            slots == CalendarSlots(a, statusMap, draftCountMap, Len(FORMATS))
        IN [id |-> a.id, title |-> a.title,
            statuses |-> slots.statObj, draftCounts |-> slots.countObj]]

\* The arguments of a call. Records name article 1; the article list may
\* hold it alone, behind another article, or not at all. A record may carry
\* the legacy format blog_outline and may lack updatedAt.
CalArticleRow(id) == [id |-> id, title |-> IF id = 1 THEN "Article 1" ELSE "Article 2"]
ArticleLists ==
  {<<CalArticleRow(1)>>, <<CalArticleRow(2), CalArticleRow(1)>>, <<CalArticleRow(2)>>}
CalTimes == {NullTime, 1, 2}
StatusRows ==
  [articleId : {1}, format : {"blog_post", "blog_outline"},
   status : CalendarStatuses, updatedAt : CalTimes]
DraftRows ==
  [articleId : {1}, format : {"blog_post", "blog_outline", "video_script"}]
SeqsUpTo(S, n) == UNION {[1 .. k -> S] : k \in 0 .. n}

CalInit ==
  /\ db = NULL
  /\ newsletterSources = <<SourceRow(1, AddrA, TRUE), SourceRow(2, AddrB, TRUE)>>
  /\ rawEmails = <<>>
  /\ ingestLog = <<>>
  /\ gmailMessages = <<>>
  /\ now = 0
  /\ faults = 0
  /\ pc = [r \in Runs |-> "idle"]
  /\ run = [r \in Runs |-> IdleRun]
  /\ calArticles \in ArticleLists
  /\ calStatuses \in SeqsUpTo(StatusRows, MaxStatuses)
  /\ calDrafts \in SeqsUpTo(DraftRows, MaxDrafts)
  /\ calendar = <<>>
  /\ calPc = "input"
  /\ RoutersIdle

Derive ==
  /\ calPc = "input"
  /\ calendar' = deriveCalendarData(calArticles, calStatuses, calDrafts)
  /\ calPc' = "derived"
  /\ UNCHANGED <<calArticles, calStatuses, calDrafts>>
  /\ UNCHANGED ingestVars
  /\ UNCHANGED <<inboxVars, statusVars, rateVars>>

CalNext == Derive

CalSpec == CalInit /\ [][CalNext]_vars

\* ================================================================ claims
\* All claims about the coordinator are checked under SeqSpec: invocations
\* that follow one another.

RowsBy(r) == {i \in DOMAIN rawEmails : rawEmails[i].byRun = r}
LogsBy(r) == {i \in DOMAIN ingestLog : ingestLog[i].byRun = r}
Remembered(r) == run[r].path # "none"

\* The identifiers stored in the queue.
StoredIds == {rawEmails[i].gmailMessageId : i \in DOMAIN rawEmails} \ {NULL}

\* No identifier is listed twice.
ListsNoIdTwice(mail) ==
  \A i, j \in DOMAIN mail : (i < j /\ Truthy(mail[i].id)) => mail[i].id # mail[j].id

\* C1 as stated: after any sequence of runs no two queue rows carry the
\* same non-null external identifier.
C1_NoTwoRowsShareAnId ==
  \A i, j \in DOMAIN rawEmails :
     (i < j /\ Truthy(rawEmails[i].gmailMessageId))
        => rawEmails[i].gmailMessageId # rawEmails[j].gmailMessageId

\* C1 amended: after any sequence of runs that follow one another, no two
\* queue rows carry the same external identifier, provided the mail search
\* has never listed an identifier twice.
C1_NoTwoRowsShareAnIdUnlessListedTwice ==
  ListsNoIdTwice(gmailMessages) => C1_NoTwoRowsShareAnId

C1_Witness ==
  /\ ListsNoIdTwice(gmailMessages)
  /\ \E r \in Runs :
        /\ r > 1 /\ pc[r] = "done" /\ run[r].path = "full"
        /\ run[r].result.emailsSkipped > 0
        /\ RowsBy(r) # {} /\ RowsBy(r - 1) # {}

\* The second of two invocations in succession, with identical options and
\* an unchanged external message set.
InSuccession(r) ==
  /\ r + 1 \in Runs
  /\ Finished(r) /\ Finished(r + 1)
  /\ run[r].maxPerSource = run[r + 1].maxPerSource
  /\ run[r].mailAtStart = Len(gmailMessages)

\* C2 as stated: the second of two invocations in succession returns
\* emailsNew = 0 and emailsSkipped = emailsFound and inserts no row.
C2_SecondRunFindsNothingNew ==
  \A r \in Runs :
     (InSuccession(r) /\ pc[r + 1] = "done")
        => /\ run[r + 1].result.emailsNew = 0
           /\ run[r + 1].result.emailsSkipped = run[r + 1].result.emailsFound
           /\ RowsBy(r + 1) = {}

\* C2 amended: when the first invocation returned with an empty errors
\* list, the second inserts no row, and the result it returns has
\* emailsNew = 0 and emailsSkipped = emailsFound.
C2_SecondRunFindsNothingNewAfterCleanRun ==
  \A r \in Runs :
     (InSuccession(r) /\ pc[r] = "done" /\ run[r].result.errors = <<>>)
        => /\ RowsBy(r + 1) = {}
           /\ pc[r + 1] = "done"
                 => /\ run[r + 1].result.emailsNew = 0
                    /\ run[r + 1].result.emailsSkipped = run[r + 1].result.emailsFound

C2_Witness ==
  \E r \in Runs :
     /\ InSuccession(r) /\ pc[r] = "done" /\ pc[r + 1] = "done"
     /\ run[r].result.errors = <<>>
     /\ run[r].result.emailsNew > 0
     /\ run[r + 1].path = "noNew"
     /\ run[r + 1].result.emailsSkipped > 0

\* The step of invocation r that queries the stored identifiers and filters
\* the found messages.
DedupStep(r) == pc[r] = "dedup" /\ pc'[r] \in {"log", "threads", "insert"}

\* C3 as stated: the messages treated as new are exactly the found messages
\* whose id is not stored, and skipped is the number of the others.
C3_NewIsFoundMinusStored ==
  [][\A r \in Runs :
       DedupStep(r) =>
          LET new == SelectSeq(run[r].messages, LAMBDA m : m.id \notin StoredIds)
          IN /\ run'[r].newMessages = new
             /\ run'[r].result.emailsSkipped = Len(run[r].messages) - Len(new)]_vars

\* C3 amended: the messages treated as new are exactly the found messages
\* that carry an id and whose id is not stored, in the order found, and
\* skipped is the number of the others.
C3_NewIsFoundWithIdMinusStored ==
  [][\A r \in Runs :
       DedupStep(r) =>
          LET new == SelectSeq(run[r].messages,
                               LAMBDA m : m.id # "" /\ m.id \notin StoredIds)
          IN /\ run'[r].newMessages = new
             /\ run'[r].result.emailsSkipped = Len(run[r].messages) - Len(new)]_vars

C3_Witness ==
  \E r \in Runs :
     /\ pc[r] \in {"threads", "insert"}
     /\ run[r].existingIds # {}
     /\ run[r].newMessages # <<>>
     /\ run[r].result.emailsSkipped > 0

\* C4 as stated: in every returned result and every audit entry,
\* emailsFound = emailsNew + emailsSkipped.
C4_FoundIsNewPlusSkipped ==
  /\ \A r \in Runs :
        pc[r] = "done" =>
           run[r].result.emailsFound =
              run[r].result.emailsNew + run[r].result.emailsSkipped
  /\ \A i \in DOMAIN ingestLog :
        ingestLog[i].emailsFound = ingestLog[i].emailsNew + ingestLog[i].emailsSkipped

\* C4 amended: emailsSkipped is emailsFound minus the number of messages
\* selected as new; emailsNew counts the inserts that succeeded, so that
\* emailsNew + emailsSkipped <= emailsFound in every result and audit
\* entry, with equality whenever the errors list is empty.
C4_SkippedIsFoundMinusSelected ==
  /\ \A r \in Runs :
        pc[r] \in {"log", "done"} =>
           /\ run[r].result.emailsNew + run[r].result.emailsSkipped
                 <= run[r].result.emailsFound
           /\ run[r].result.errors = <<>> =>
                 run[r].result.emailsFound =
                    run[r].result.emailsNew + run[r].result.emailsSkipped
           /\ (pc[r] = "log" /\ run[r].path \in {"noNew", "full"}) =>
                 run[r].result.emailsSkipped =
                    run[r].result.emailsFound - Len(run[r].newMessages)
  /\ \A i \in DOMAIN ingestLog :
        /\ ingestLog[i].emailsNew + ingestLog[i].emailsSkipped <= ingestLog[i].emailsFound
        /\ ingestLog[i].errorMessage = <<>> =>
              ingestLog[i].emailsFound =
                 ingestLog[i].emailsNew + ingestLog[i].emailsSkipped

C4_Witness ==
  \E r \in Runs :
     /\ pc[r] = "done" /\ run[r].path = "full"
     /\ run[r].result.errors = <<>>
     /\ run[r].result.emailsNew > 0
     /\ run[r].result.emailsSkipped > 0
     /\ LogsBy(r) # {}

\* C5 as stated: no invocation ends with an exception.
C5_NoInvocationThrows == \A r \in Runs : pc[r] # "threw"

\* C6 as stated: at the end of a run without failure, the stored counter of
\* every source of the run is higher than before the run by the number of
\* inserted messages that matched it, and such a source is stamped.
C6_CounterRisesByMatches ==
  \A r \in Runs :
     (pc[r] = "log" /\ run[r].path = "full" /\ run[r].result.errors = <<>>) =>
        \A k \in DOMAIN run[r].sources :
           LET before  == run[r].sources[k]
               stored  == newsletterSources[before.id]
               matches == {i \in RowsBy(r) :
                             FindSource(run[r].sources, rawEmails[i].fromAddress) = k}
           IN /\ stored.totalIngested = before.totalIngested + Cardinality(matches)
              /\ matches # {} => stored.lastIngestedAt # NullTime

\* C7: the status of a run that reaches the insert loop is success when it
\* collected no error, partial when it collected errors and saved at least
\* one message, error when it collected errors and saved none; the audit
\* entry of the run records that status.
StatusFor(errors, saved) ==
  IF errors = <<>> THEN "success" ELSE IF saved > 0 THEN "partial" ELSE "error"

C7_StatusFollowsErrorsAndSaves ==
  /\ \A r \in Runs :
        (pc[r] = "log" /\ run[r].path = "full") =>
           run[r].logStatus = StatusFor(run[r].result.errors, Cardinality(RowsBy(r)))
  /\ \A i \in DOMAIN ingestLog :
        LET r == ingestLog[i].byRun
        IN run[r].path = "full" =>
              ingestLog[i].status =
                 StatusFor(run[r].result.errors, Cardinality(RowsBy(r)))

C7_Witness ==
  \E i, j \in DOMAIN ingestLog :
     /\ ingestLog[i].status = "partial" /\ run[ingestLog[i].byRun].path = "full"
     /\ ingestLog[j].status = "error" /\ run[ingestLog[j].byRun].path = "full"

\* The return statements that lie behind the search step.
SearchPaths == {"searchFailed", "noMessages", "noNew", "full"}

\* C8 as stated: an invocation writes exactly one audit row iff it reaches
\* the search step, and never more than one.
C8_OneAuditRowIffSearchReached ==
  \A r \in Runs :
     /\ Cardinality(LogsBy(r)) <= 1
     /\ (Finished(r) /\ Remembered(r)) =>
           (Cardinality(LogsBy(r)) = 1
              <=> run[r].path \in SearchPaths \cup {"getExistingGmailIds"})

\* C8 amended: an invocation writes at most one audit row; it writes one
\* iff it returns behind the search step (search failure, nothing found,
\* nothing new, insert loop) and the audit insert succeeds; it writes none
\* when the store is unavailable, when no source is active, when it ends
\* with an exception or when the audit insert fails.
C8_OneAuditRowIffReturnedBehindSearch ==
  \A r \in Runs :
     /\ Cardinality(LogsBy(r)) <= 1
     /\ ~Finished(r) => LogsBy(r) = {}
     /\ (Finished(r) /\ Remembered(r)) =>
           (Cardinality(LogsBy(r)) = 1
              <=> (pc[r] = "done" /\ run[r].path \in SearchPaths
                   /\ ~run[r].auditFailed))

C8_Witness ==
  \E r, q \in Runs :
     /\ pc[r] = "done" /\ run[r].path = "full" /\ Cardinality(LogsBy(r)) = 1
     /\ pc[q] = "done" /\ run[q].path = "searchFailed" /\ Cardinality(LogsBy(q)) = 1

\* C9 as stated: a run whose search fails returns with the failure in
\* errors, one audit entry with status error and no queue row.
C9_SearchFailureWritesErrorEntry ==
  \A r \in Runs :
     (pc[r] = "done" /\ run[r].path = "searchFailed") =>
        /\ run[r].result.errors = << <<"search">> >>
        /\ RowsBy(r) = {}
        /\ Cardinality(LogsBy(r)) = 1
        /\ \A i \in LogsBy(r) : ingestLog[i].status = "error"

C9_SearchFailureState ==
  \A r \in Runs :
     run[r].path = "searchFailed" =>
        /\ pc[r] \in {"log", "done"}
        /\ run[r].result.errors = << <<"search">> >>
        /\ run[r].result.emailsFound = 0 /\ run[r].result.emailsNew = 0
        /\ RowsBy(r) = {}
        /\ \A i \in LogsBy(r) : ingestLog[i].status = "error"
        /\ Cardinality(LogsBy(r)) =
              IF pc[r] = "done" /\ ~run[r].auditFailed THEN 1 ELSE 0

C9_SearchFailureFrame ==
  \A r \in Runs :
     (pc'[r] # pc[r] /\ run'[r].path = "searchFailed") =>
        UNCHANGED <<rawEmails, newsletterSources>>

\* C9 amended: a run whose search fails records the failure in errors,
\* writes one audit entry with status error (none if that insert itself
\* fails) and returns; none of its steps inserts a queue row or changes a
\* row of newsletter_sources.
C9_SearchFailureWritesErrorEntryIfStoreAccepts ==
  []C9_SearchFailureState /\ [][C9_SearchFailureFrame]_vars

C9_Witness ==
  \E r \in Runs :
     /\ pc[r] = "done" /\ run[r].path = "searchFailed"
     /\ Cardinality(LogsBy(r)) = 1
     /\ rawEmails # <<>>

\* The status and draft records of one slot of the calendar.
StatusRecords(articleId, fmt) ==
  {i \in DOMAIN calStatuses :
     calStatuses[i].articleId = articleId /\ normalizeFormat(calStatuses[i].format) = fmt}
DraftRecords(articleId, fmt) ==
  {i \in DOMAIN calDrafts :
     calDrafts[i].articleId = articleId /\ normalizeFormat(calDrafts[i].format) = fmt}

\* C10: for every article and every format of the fixed set, when no
\* explicit status record exists for the (article, normalized format), the
\* derived status is in_progress if the slot has a draft and untouched if
\* it has none; it is never done.
C10_StatusInferredFromDrafts ==
  calPc = "derived" =>
     /\ Len(calendar) = Len(calArticles)
     /\ \A i \in DOMAIN calArticles : \A n \in DOMAIN FORMATS :
           LET a   == calArticles[i]
               fmt == FORMATS[n]
           IN StatusRecords(a.id, fmt) = {} =>
                 /\ calendar[i].id = a.id
                 /\ calendar[i].statuses[fmt] =
                       IF Cardinality(DraftRecords(a.id, fmt)) > 0
                       THEN "in_progress" ELSE "untouched"
                 /\ calendar[i].statuses[fmt] # "done"

C10_Witness ==
  /\ calPc = "derived"
  /\ \E i \in DOMAIN calArticles :
        /\ StatusRecords(calArticles[i].id, "blog_post") # {}
        /\ StatusRecords(calArticles[i].id, "video_script") = {}
        /\ DraftRecords(calArticles[i].id, "video_script") # {}
        /\ calendar[i].statuses["video_script"] = "in_progress"
        /\ calendar[i].statuses["linkedin_post"] = "untouched"

\* The formats of the fixed set, and the formats a record may carry for each.
FormatSet == {FORMATS[n] : n \in DOMAIN FORMATS}
RawFormats(fmt) == IF fmt = "blog_post" THEN {"blog_post", "blog_outline"} ELSE {fmt}

\* The status records of a slot, whichever spelling of the format they carry.
SlotStatuses(articleId, fmt) ==
  {i \in DOMAIN calStatuses :
     calStatuses[i].articleId = articleId /\ calStatuses[i].format \in RawFormats(fmt)}
SlotDrafts(articleId, fmt) ==
  {i \in DOMAIN calDrafts :
     calDrafts[i].articleId = articleId /\ calDrafts[i].format \in RawFormats(fmt)}

\* C11: when the status records of a slot all carry updatedAt and one of
\* them is newer than every other, the derived status of the slot is the
\* status of that record, wherever it stands in the input array.
C11_LatestStatusWins ==
  calPc = "derived" =>
     \A i \in DOMAIN calArticles : \A fmt \in FormatSet :
        LET recs == SlotStatuses(calArticles[i].id, fmt)
        IN \A k \in recs :
              (/\ \A j \in recs : calStatuses[j].updatedAt # NullTime
               /\ \A j \in recs \ {k} :
                     calStatuses[j].updatedAt < calStatuses[k].updatedAt)
                 => calendar[i].statuses[fmt] = calStatuses[k].status

C11_Witness ==
  /\ calPc = "derived"
  /\ Len(calStatuses) = 2 /\ calDrafts # <<>>
  /\ calArticles[1].id = 1
  /\ calStatuses[1].format = "blog_post" /\ calStatuses[2].format = "blog_post"
  /\ calStatuses[1].updatedAt = 1 /\ calStatuses[2].updatedAt = 2
  /\ calStatuses[1].status = "done" /\ calStatuses[2].status = "untouched"
  /\ calendar[1].statuses["blog_post"] = "untouched"

\* C12: a draft with format blog_outline is counted under blog_post, a
\* status record with format blog_outline that is the newest of the
\* blog_post slot decides the status of blog_post, and no output row has a
\* key blog_outline in statuses or draftCounts.
C12_LegacyFormatGoesUnderBlogPost ==
  calPc = "derived" =>
     \A i \in DOMAIN calArticles :
        LET id   == calArticles[i].id
            recs == SlotStatuses(id, "blog_post")
        IN /\ "blog_outline" \notin DOMAIN calendar[i].statuses
           /\ "blog_outline" \notin DOMAIN calendar[i].draftCounts
           /\ calendar[i].draftCounts["blog_post"] =
                 Cardinality({d \in DOMAIN calDrafts :
                                /\ calDrafts[d].articleId = id
                                /\ calDrafts[d].format \in {"blog_post", "blog_outline"}})
           /\ \A k \in recs :
                 (/\ calStatuses[k].format = "blog_outline"
                  /\ \A j \in recs \ {k} : Ts(calStatuses[j]) < Ts(calStatuses[k]))
                    => calendar[i].statuses["blog_post"] = calStatuses[k].status

C12_Witness ==
  /\ calPc = "derived"
  /\ calArticles[1].id = 1
  /\ Len(calDrafts) = 1 /\ calDrafts[1].format = "blog_outline"
  /\ Len(calStatuses) = 1 /\ calStatuses[1].format = "blog_outline"
  /\ calStatuses[1].status = "done"
  /\ calendar[1].statuses["blog_post"] = "done"
  /\ calendar[1].draftCounts["blog_post"] = 1

\* C13: a slot with an explicit status record shows the status of one of
\* its records, never the inference from drafts, and the draft count of
\* every slot is the number of draft records of the slot, with or without
\* an explicit status.
C13_ExplicitStatusOverridesDrafts ==
  calPc = "derived" =>
     \A i \in DOMAIN calArticles : \A fmt \in FormatSet :
        LET id   == calArticles[i].id
            recs == SlotStatuses(id, fmt)
        IN /\ recs # {} =>
                 \E k \in recs :
                    /\ calendar[i].statuses[fmt] = calStatuses[k].status
                    /\ \A j \in recs : Ts(calStatuses[j]) <= Ts(calStatuses[k])
           /\ calendar[i].draftCounts[fmt] = Cardinality(SlotDrafts(id, fmt))

C13_Witness ==
  /\ calPc = "derived"
  /\ calArticles[1].id = 1
  /\ \A k \in SlotStatuses(1, "blog_post") : calStatuses[k].status = "untouched"
  /\ SlotStatuses(1, "blog_post") # {}
  /\ SlotDrafts(1, "blog_post") # {}
  /\ calendar[1].statuses["blog_post"] = "untouched"
  /\ calendar[1].draftCounts["blog_post"] = 1

\* C14: the output has one row per input article, in the input order, and
\* the statuses and draftCounts of every row have exactly the four keys of
\* the fixed set, whether or not the article has records and whether or
\* not the records name an article of the input.
C14_OneRowPerArticleWithFourKeys ==
  calPc = "derived" =>
     /\ Len(calendar) = Len(calArticles)
     /\ \A i \in DOMAIN calArticles :
           /\ calendar[i].id = calArticles[i].id
           /\ calendar[i].title = calArticles[i].title
           /\ DOMAIN calendar[i].statuses =
                 {"video_script", "linkedin_post", "instagram_caption", "blog_post"}
           /\ DOMAIN calendar[i].draftCounts =
                 {"video_script", "linkedin_post", "instagram_caption", "blog_post"}

C14_Witness ==
  /\ calPc = "derived"
  /\ Len(calArticles) = 2 /\ calArticles[1].id = 2 /\ calArticles[2].id = 1
  /\ calStatuses # <<>> /\ calDrafts # <<>>
  /\ calendar[1].id = 2 /\ calendar[2].id = 1
  /\ \A fmt \in FormatSet :
        calendar[1].statuses[fmt] = "untouched" /\ calendar[1].draftCounts[fmt] = 0

\* ================================================================ inbox
\* The webhook POST /api/ingest/email and the procedures of inboxRouter,
\* working on the queue the coordinator fills.

MaxInboxCalls == 3  \* webhook posts and inbox calls in one behaviour

\* The coordinator before its first run, both sources active.
IngestFresh ==
  /\ db = NULL
  /\ newsletterSources = <<SourceRow(1, AddrA, TRUE), SourceRow(2, AddrB, TRUE)>>
  /\ rawEmails = <<>>
  /\ ingestLog = <<>>
  /\ gmailMessages = <<>>
  /\ now = 0
  /\ faults = 0
  /\ pc = [r \in Runs |-> "idle"]
  /\ run = [r \in Runs |-> IdleRun]

\* The coordinator after one run that found Msg1, stored it and met no
\* failure (a state SeqSpec reaches).
AfterCleanRun ==
  /\ db = "conn"
  /\ newsletterSources =
        <<[SourceRow(1, AddrA, TRUE) EXCEPT !.lastIngestedAt = 1, !.totalIngested = 1],
          SourceRow(2, AddrB, TRUE)>>
  /\ rawEmails =
        <<[id |-> 1, fromAddress |-> <<"a">>, fromName |-> <<"N">>,
           rawText |-> "b1",
           gmailMessageId |-> "g1", gmailThreadId |-> "t1",
           status |-> "pending", errorMessage |-> NULL, articleId |-> NullId,
           byRun |-> 1]>>
  /\ ingestLog =
        <<[id |-> 1, status |-> "success", emailsFound |-> 1, emailsNew |-> 1,
           emailsSkipped |-> 0, errorMessage |-> <<>>, byRun |-> 1]>>
  /\ gmailMessages = <<Msg1>>
  /\ now = 1
  /\ faults = 0
  /\ pc = [r \in Runs |-> IF r = 1 THEN "done" ELSE "idle"]
  /\ run = [r \in Runs |->
              IF r = 1
              THEN [IdleRun EXCEPT !.maxPerSource = DefaultMaxPerSource,
                                   !.mailAtStart = 1,
                                   !.result.emailsFound = 1,
                                   !.result.emailsNew = 1,
                                   !.path = "full"]
              ELSE IdleRun]

InboxInit ==
  /\ IngestFresh \/ AfterCleanRun
  /\ calArticles = <<>>
  /\ calStatuses = <<>>
  /\ calDrafts = <<>>
  /\ calendar = <<>>
  /\ calPc = "input"
  /\ RoutersIdle

\* getDb(): the cached handle, or one connect attempt that may fail.
Handles == IF db # NULL THEN {db} ELSE {NULL, "conn"}

\* What a post carries: body.from and body.fromName.
WebhookBodies == {[from |-> <<"b">>, fromName |-> <<"B">>, text |-> "w"]}

\* Mutant: the row is stored as already approved.
WebhookRowApproved(id, body) ==
  [id |-> id, fromAddress |-> body.from, fromName |-> body.fromName,
   rawText |-> body.text,
   gmailMessageId |-> NULL, gmailThreadId |-> NULL,
   status |-> "approved", errorMessage |-> NULL, articleId |-> NullId,
   byRun |-> 0]

\* The row raw_emails gets from insertFn({subject, fromAddress, fromName,
\* rawText, rawHtml}): no Gmail identifiers, status by the column default.
WebhookRow(id, body) ==
  [id |-> id, fromAddress |-> body.from, fromName |-> body.fromName,
   rawText |-> body.text,
   gmailMessageId |-> NULL, gmailThreadId |-> NULL,
   status |-> "pending", errorMessage |-> NULL, articleId |-> NullId,
   byRun |-> 0]

Reply(op, code, id) == [op |-> op, code |-> code, id |-> id]

\* One more post or call.
CountCall == inboxCalls < MaxInboxCalls /\ inboxCalls' = inboxCalls + 1

\* POST /api/ingest/email: insertRawEmail inserts, then reads the row back.
PostIngestEmail ==
  /\ CountCall
  /\ \E body \in WebhookBodies, handle \in Handles :
        LET id == Len(rawEmails) + 1
        IN /\ db' = handle
           /\ IF handle = NULL
              THEN \* "Database not available"
                   /\ Fails
                   /\ UNCHANGED rawEmails
                   /\ inboxReply' = Reply("webhook", "500", 0)
              ELSE \/ /\ Succeeds
                      /\ rawEmails' = Append(rawEmails, WebhookRow(id, body))
                      /\ inboxReply' = Reply("webhook", "200", id)
                   \/ \* the insert rejects
                      /\ Fails
                      /\ UNCHANGED rawEmails
                      /\ inboxReply' = Reply("webhook", "500", 0)
                   \/ \* the select behind the insert rejects
                      /\ Fails
                      /\ rawEmails' = Append(rawEmails, WebhookRow(id, body))
                      /\ inboxReply' = Reply("webhook", "500", 0)
  /\ UNCHANGED <<newsletterSources, ingestLog, gmailMessages, now, pc, run>>
  /\ UNCHANGED <<calVars, statusVars, rateVars, bulk, articles, approve>>

\* Mutant: the update leaves the errorMessage column alone.
SetRawEmailStatusNoMessage(rows, id, status, errorMessage, articleId) ==
  [i \in DOMAIN rows |->
     IF rows[i].id = id
     THEN [rows[i] EXCEPT !.status = status,
                          !.articleId = IF articleId # NullId THEN articleId ELSE @]
     ELSE rows[i]]

\* db.update(rawEmails).set({status, processedAt, errorMessage?, articleId?})
\*   .where(eq(rawEmails.id, id)); errorMessage NULL and articleId NullId
\* stand for undefined, which leaves the column as it is.
SetRawEmailStatus(rows, id, status, errorMessage, articleId) ==
  [i \in DOMAIN rows |->
     IF rows[i].id = id
     THEN [rows[i] EXCEPT !.status = status,
                          !.errorMessage = IF errorMessage # NULL THEN errorMessage ELSE @,
                          !.articleId = IF articleId # NullId THEN articleId ELSE @]
     ELSE rows[i]]

\* The messages the routers write: the one of inbox.approve, the
\* nonArticleReason of the LLM and String(err) of inbox.bulkProcess, and what
\* a caller of inbox.updateStatus may give.
LLMExtractionFailed == "LLM extraction failed"
NonArticleReason == "reason"
ErrText == "err"
ErrorMessageInputs == {NULL, "m"}

RawEmailStatuses == {"pending", "approved", "discarded", "error"}

\* inbox.updateStatus -> updateRawEmailStatus
InboxUpdateStatus ==
  /\ CountCall
  /\ \E id \in DOMAIN rawEmails, status \in RawEmailStatuses,
        errorMessage \in ErrorMessageInputs,
        articleId \in {NullId, 1}, handle \in Handles :
        /\ db' = handle
        /\ IF handle = NULL
           THEN \* if (!db) return
                /\ Fails
                /\ UNCHANGED rawEmails
                /\ inboxReply' = Reply("updateStatus", "ok", id)
           ELSE \/ /\ Succeeds
                   /\ rawEmails' = SetRawEmailStatus(rawEmails, id, status, errorMessage,
                                                      articleId)
                   /\ inboxReply' = Reply("updateStatus", "ok", id)
                \/ /\ Fails
                   /\ UNCHANGED rawEmails
                   /\ inboxReply' = Reply("updateStatus", "error", id)
  /\ UNCHANGED <<newsletterSources, ingestLog, gmailMessages, now, pc, run>>
  /\ UNCHANGED <<calVars, statusVars, rateVars, bulk, articles, approve>>

\* inbox.approve, first step: getRawEmailById(input.id)
ApproveStart ==
  /\ approve.pc = "idle"
  /\ CountCall
  /\ \E id \in DOMAIN rawEmails, handle \in Handles :
        /\ db' = handle
        /\ IF handle = NULL
           THEN \* getRawEmailById returns null
                /\ Fails
                /\ UNCHANGED approve
                /\ inboxReply' = Reply("approve", "NOT_FOUND", id)
           ELSE \/ /\ Succeeds
                   /\ approve' = [pc |-> "llm", id |-> id, articleId |-> 0]
                   /\ UNCHANGED inboxReply
                \/ /\ Fails
                   /\ UNCHANGED approve
                   /\ inboxReply' = Reply("approve", "error", id)
  /\ UNCHANGED <<newsletterSources, rawEmails, ingestLog, gmailMessages, now, pc, run>>
  /\ UNCHANGED <<calVars, statusVars, rateVars, bulk, articles>>

\* inbox.approve: invokeLLM and JSON.parse; on failure the catch block marks
\* the email as error and throws INTERNAL_SERVER_ERROR.
ApproveExtract ==
  /\ approve.pc = "llm"
  /\ \/ /\ approve' = [approve EXCEPT !.pc = "create"]
        /\ Succeeds
        /\ UNCHANGED <<rawEmails, inboxReply>>
     \/ /\ approve' = NoApprove
        /\ \/ /\ Succeeds
              /\ rawEmails' = SetRawEmailStatus(rawEmails, approve.id, "error",
                                                 LLMExtractionFailed, NullId)
              /\ inboxReply' = Reply("approve", "INTERNAL_SERVER_ERROR", approve.id)
           \/ /\ Fails
              /\ UNCHANGED rawEmails
              /\ inboxReply' = Reply("approve", "error", approve.id)
  /\ UNCHANGED <<db, newsletterSources, ingestLog, gmailMessages, now, pc, run>>
  /\ UNCHANGED <<calVars, statusVars, rateVars, bulk, articles, inboxCalls>>

\* The row createArticle inserts; rawEmailId remembers the queue entry it
\* was made from.
ArticleRow(id, rawEmailId) == [id |-> id, rawEmailId |-> rawEmailId]

\* inbox.approve: createArticle inserts the article, then reads it back.
ApproveCreate ==
  /\ approve.pc = "create"
  /\ LET id == Len(articles) + 1
     IN \/ /\ Succeeds
           /\ articles' = Append(articles, ArticleRow(id, approve.id))
           /\ approve' = [approve EXCEPT !.pc = "finish", !.articleId = id]
           /\ UNCHANGED inboxReply
        \/ \* the insert rejects
           /\ Fails
           /\ UNCHANGED articles
           /\ approve' = NoApprove
           /\ inboxReply' = Reply("approve", "error", approve.id)
        \/ \* a query behind the insert rejects
           /\ Fails
           /\ articles' = Append(articles, ArticleRow(id, approve.id))
           /\ approve' = NoApprove
           /\ inboxReply' = Reply("approve", "error", approve.id)
  /\ UNCHANGED <<db, newsletterSources, rawEmails, ingestLog, gmailMessages, now, pc, run>>
  /\ UNCHANGED <<calVars, statusVars, rateVars, bulk, inboxCalls>>

\* inbox.approve: updateRawEmailStatus(input.id, "approved", {articleId})
ApproveFinish ==
  /\ approve.pc = "finish"
  /\ approve' = NoApprove
  /\ \/ /\ Succeeds
        /\ rawEmails' = SetRawEmailStatus(rawEmails, approve.id, "approved", NULL,
                                           approve.articleId)
        /\ inboxReply' = Reply("approve", "ok", approve.id)
     \/ /\ Fails
        /\ UNCHANGED rawEmails
        /\ inboxReply' = Reply("approve", "error", approve.id)
  /\ UNCHANGED <<db, newsletterSources, ingestLog, gmailMessages, now, pc, run>>
  /\ UNCHANGED <<calVars, statusVars, rateVars, bulk, articles, inboxCalls>>

\* ------------------------------------------------- inbox.bulkProcess
\* What the call may be given: input.batchSize and input.maxEmails.
BulkBatchSizes == {1, 2}
BulkMaxEmails == {1, 2}

\* listRawEmails({status: "pending", limit}): the ids of the pending rows,
\* the row received last first, at most limit of them.
RECURSIVE PendingNewestFirst(_, _)
PendingNewestFirst(rows, n) ==
  IF n = 0 THEN <<>>
  ELSE IF rows[n].status = "pending"
       THEN <<rows[n].id>> \o PendingNewestFirst(rows, n - 1)
       ELSE PendingNewestFirst(rows, n - 1)

listRawEmails(rows, limit) ==
  LET ids == PendingNewestFirst(rows, Len(rows))
  IN SubSeq(ids, 1, IF Len(ids) < limit THEN Len(ids) ELSE limit)

\* No bulkProcess call is running.
BulkAtRest == bulk.pc \in {"idle", "returned", "threw"}

\* inbox.bulkProcess up to its loop: listRawEmails, the early return on an
\* empty list, getAllTags.
BulkStart ==
  /\ BulkAtRest
  /\ CountCall
  /\ \E batchSize \in BulkBatchSizes, maxEmails \in BulkMaxEmails, handle \in Handles :
        LET pending == listRawEmails(rawEmails, maxEmails)
        IN /\ db' = handle
           /\ IF handle = NULL
              THEN \* listRawEmails returns no emails
                   /\ Fails
                   /\ bulk' = [NoBulk EXCEPT !.pc = "returned", !.batchSize = batchSize,
                                              !.maxEmails = maxEmails]
                   /\ inboxReply' = Reply("bulkProcess", "ok", 0)
              ELSE \/ /\ Succeeds
                      /\ bulk' = [NoBulk EXCEPT
                                    !.pc = IF pending = <<>> THEN "returned" ELSE "batch",
                                    !.batchSize = batchSize,
                                    !.maxEmails = maxEmails,
                                    !.pending = pending]
                      /\ inboxReply' = IF pending = <<>>
                                       THEN Reply("bulkProcess", "ok", 0)
                                       ELSE inboxReply
                   \/ \* a select of listRawEmails, or getAllTags, rejects
                      /\ Fails
                      /\ bulk' = [NoBulk EXCEPT !.pc = "threw", !.batchSize = batchSize,
                                                 !.maxEmails = maxEmails]
                      /\ inboxReply' = Reply("bulkProcess", "error", 0)
  /\ UNCHANGED <<newsletterSources, rawEmails, ingestLog, gmailMessages, now, pc, run>>
  /\ UNCHANGED <<calVars, statusVars, rateVars, articles, approve>>

\* The positions of pending that make up the batch in hand.
BatchPositions(b) ==
  {k \in DOMAIN b.pending : b.i < k /\ k <= b.i + b.batchSize}

\* What the body of batch.map can come to for one email: the status it
\* writes (NULL when the write in the catch block rejects as well), the
\* counter it increments, whether createArticle left an article behind, and
\* how many store calls rejected on the way.
\*   - the LLM says it is no article: discarded
\*   - the LLM returns an article, createArticle and the update succeed: approved
\*   - the LLM call or JSON.parse throws: error
\*   - the update to discarded, or the insert of createArticle, rejects: error
\*   - a query of createArticle behind its insert, or the update to approved,
\*     rejects: error, and the article stays
\*   - as the three before, and the update to error rejects as well
BulkOutcomes ==
  {[status |-> "discarded", counter |-> "discarded", article |-> FALSE, rejects |-> 0],
   [status |-> "approved",  counter |-> "saved",     article |-> TRUE,  rejects |-> 0],
   [status |-> "error",     counter |-> "errors",    article |-> FALSE, rejects |-> 0],
   [status |-> "error",     counter |-> "errors",    article |-> FALSE, rejects |-> 1],
   [status |-> "error",     counter |-> "errors",    article |-> TRUE,  rejects |-> 1],
   [status |-> NULL,        counter |-> "none",      article |-> FALSE, rejects |-> 1],
   [status |-> NULL,        counter |-> "none",      article |-> FALSE, rejects |-> 2],
   [status |-> NULL,        counter |-> "none",      article |-> TRUE,  rejects |-> 2]}

\* Mutant: an email found to be no article is counted twice.
BulkCountedTwice(b, counter) ==
  [b EXCEPT !.saved = IF counter = "saved" THEN @ + 1 ELSE @,
            !.discarded = IF counter = "discarded" THEN @ + 2 ELSE @,
            !.errors = IF counter = "errors" THEN @ + 1 ELSE @]

\* saved++, discarded++ or errors++
BulkCounted(b, counter) ==
  [b EXCEPT !.saved = IF counter = "saved" THEN @ + 1 ELSE @,
            !.discarded = IF counter = "discarded" THEN @ + 1 ELSE @,
            !.errors = IF counter = "errors" THEN @ + 1 ELSE @]

\* The call once position k of the batch is through: the next batch when
\* the batch is complete, the return after the last one; a rejected promise
\* of the batch makes Promise.all, and with it the call, reject.
BulkAfterEmail(b, k, failed) ==
  LET done   == b.done \cup {k}
      isLast == done = BatchPositions(b)
      more   == b.i + b.batchSize < Len(b.pending)
  IN [b EXCEPT !.failed = b.failed \/ failed,
               !.last = b.pending[k],
               !.lastRejected = failed,
               !.done = IF isLast THEN {} ELSE done,
               !.i = IF isLast /\ more /\ ~(b.failed \/ failed) THEN @ + b.batchSize ELSE @,
               !.pc = IF ~isLast THEN "batch"
                      ELSE IF b.failed \/ failed THEN "threw"
                      ELSE IF more THEN "batch" ELSE "returned"]

\* inbox.bulkProcess, the body of batch.map for one email of the batch in
\* hand; the emails of a batch finish in any order.
BulkEmail ==
  /\ bulk.pc = "batch"
  /\ \E k \in BatchPositions(bulk) \ bulk.done, o \in BulkOutcomes :
        LET email     == bulk.pending[k]
            articleId == Len(articles) + 1
            after     == BulkAfterEmail(BulkCounted(bulk, o.counter), k, o.status = NULL)
        IN /\ faults + o.rejects <= MaxFaults
           /\ faults' = faults + o.rejects
           /\ articles' = IF o.article
                          THEN Append(articles, ArticleRow(articleId, email))
                          ELSE articles
           /\ rawEmails' =
                 IF o.status = NULL THEN rawEmails
                 ELSE SetRawEmailStatus(rawEmails, email, o.status,
                         IF o.status = "discarded" THEN NonArticleReason
                         ELSE IF o.status = "error" THEN ErrText ELSE NULL,
                         IF o.status = "approved" THEN articleId ELSE NullId)
           /\ bulk' = after
           /\ inboxReply' =
                 IF after.pc = "returned" THEN Reply("bulkProcess", "ok", 0)
                 ELSE IF after.pc = "threw" THEN Reply("bulkProcess", "error", 0)
                 ELSE inboxReply
  /\ UNCHANGED <<db, newsletterSources, ingestLog, gmailMessages, now, pc, run>>
  /\ UNCHANGED <<calVars, statusVars, rateVars, approve, inboxCalls>>

InboxNext ==
  \/ BulkStart
  \/ BulkEmail
  \/ PostIngestEmail
  \/ InboxUpdateStatus
  \/ ApproveStart
  \/ ApproveExtract
  \/ ApproveCreate
  \/ ApproveFinish

InboxSpec == InboxInit /\ [][InboxNext]_vars

\* C15 as stated: an entry whose status is approved or discarded keeps that
\* status in every step.
C15_ApprovedAndDiscardedAreTerminal ==
  [][\A i \in DOMAIN rawEmails :
       rawEmails[i].status \in {"approved", "discarded"}
          => rawEmails'[i].status = rawEmails[i].status]_vars

\* C16: a post answered with success has appended exactly one row to the
\* queue, with the id answered, status pending and no external identifier,
\* and has changed no other row; a post whose insert fails is answered 500
\* and leaves the queue as it was. No answer but 200 and 500 is given.
C16_WebhookInsertsOnePendingRow ==
  [][PostIngestEmail =>
       /\ inboxReply'.code \in {"200", "500"}
       /\ inboxReply'.code = "200" =>
             /\ Len(rawEmails') = Len(rawEmails) + 1
             /\ SubSeq(rawEmails', 1, Len(rawEmails)) = rawEmails
             /\ rawEmails'[Len(rawEmails')].id = inboxReply'.id
             /\ rawEmails'[Len(rawEmails')].status = "pending"
             /\ rawEmails'[Len(rawEmails')].gmailMessageId = NULL
       /\ rawEmails' = rawEmails => inboxReply'.code = "500"
       /\ SubSeq(rawEmails', 1, Len(rawEmails)) = rawEmails
       /\ Len(rawEmails') <= Len(rawEmails) + 1]_vars

C16_Witness ==
  /\ Len(rawEmails) = 2
  /\ rawEmails[1].byRun = 1 /\ rawEmails[1].gmailMessageId = "g1"
  /\ rawEmails[2].byRun = 0 /\ rawEmails[2].gmailMessageId = NULL
  /\ rawEmails[2].status = "pending"
  /\ inboxReply = Reply("webhook", "200", 2)

\* ====================================================== calendar router
\* calendar.updateStatus (protectedProcedure -> upsertRepurposingStatus) and
\* calendar.getData (getCalendarData).  calArticles, calStatuses, calendar and
\* calPc hold what the last call read and answered when that call was
\* calendar.getData; the answer of calendar.updateStatus is {success: true}.

MaxStatusCalls == 3 \* calendar.updateStatus calls in one behaviour

\* ctx.user of a call: nobody, or a signed-in user.
Users == {NULL, "u1"}

\* Mutant: the procedure is public.
PublicProcedure(user) == TRUE

\* protectedProcedure lets a call pass only with ctx.user set.
ProtectedProcedure(user) == user # NULL

\* What calendar.updateStatus may be called with.
StatusInputs ==
  [user : Users, articleId : {1}, format : {"blog_post", "video_script"},
   status : {"untouched", "done"}]

\* Mutant: every call inserts a row.
InsertRepurposingStatus(rows, data, time) ==
  Append(rows, [id |-> Len(rows) + 1, articleId |-> data.articleId,
                format |-> data.format, status |-> data.status,
                updatedAt |-> time])

\* db.insert(contentRepurposing).values(...).onDuplicateKeyUpdate({set: {status, notes}})
\* under the unique key (articleId, format); updatedAt is set by the store
\* (defaultNow, onUpdateNow when the row changes).
upsertRepurposingStatus(rows, data, time) ==
  IF \E i \in DOMAIN rows :
        rows[i].articleId = data.articleId /\ rows[i].format = data.format
  THEN [i \in DOMAIN rows |->
          IF rows[i].articleId = data.articleId /\ rows[i].format = data.format
          THEN [rows[i] EXCEPT !.status = data.status,
                               !.updatedAt = IF rows[i].status # data.status
                                             THEN time ELSE @]
          ELSE rows[i]]
  ELSE Append(rows, [id |-> Len(rows) + 1, articleId |-> data.articleId,
                     format |-> data.format, status |-> data.status,
                     updatedAt |-> time])

\* A call as the caller sees it (outcome) and as the store sees it (stored).
StatusCall(data, outcome, stored) ==
  [user |-> data.user, articleId |-> data.articleId, format |-> data.format,
   status |-> data.status, outcome |-> outcome, stored |-> stored]

CalendarUpdateStatus ==
  /\ Len(statusCalls) < MaxStatusCalls
  /\ \E data \in StatusInputs :
        IF ~ProtectedProcedure(data.user)
        THEN /\ statusCalls' = Append(statusCalls, StatusCall(data, "UNAUTHORIZED", FALSE))
             /\ UNCHANGED <<db, now, faults, contentRepurposing>>
        ELSE \E handle \in Handles :
                /\ db' = handle
                /\ IF handle = NULL
                   THEN \* if (!db) return
                        /\ Fails
                        /\ statusCalls' = Append(statusCalls, StatusCall(data, "ok", FALSE))
                        /\ UNCHANGED <<now, contentRepurposing>>
                   ELSE \/ /\ Succeeds
                           /\ now' = now + 1
                           /\ contentRepurposing' =
                                 upsertRepurposingStatus(contentRepurposing, data, now')
                           /\ statusCalls' = Append(statusCalls, StatusCall(data, "ok", TRUE))
                        \/ /\ Fails
                           /\ statusCalls' = Append(statusCalls, StatusCall(data, "error", FALSE))
                           /\ UNCHANGED <<now, contentRepurposing>>
  /\ calArticles' = <<>>
  /\ calStatuses' = <<>>
  /\ calendar' = <<>>
  /\ calPc' = "input"
  /\ UNCHANGED <<newsletterSources, rawEmails, ingestLog, gmailMessages, pc, run>>
  /\ UNCHANGED <<calDrafts, inboxVars, rateVars>>

\* select articleId, format, status, updatedAt from content_repurposing
StatusRowsOf(rows) ==
  [i \in DOMAIN rows |->
     [articleId |-> rows[i].articleId, format |-> rows[i].format,
      status |-> rows[i].status, updatedAt |-> rows[i].updatedAt]]

\* select id, title, ... from articles order by importedAt desc: the newest
\* article first.
ArticleRowsOf(rows) ==
  [i \in DOMAIN rows |-> CalArticleRow(rows[Len(rows) + 1 - i].id)]

\* calendar.getData -> getCalendarData: three selects, then deriveCalendarData.
CalendarGetData ==
  /\ \E handle \in Handles :
        /\ db' = handle
        /\ IF handle = NULL
           THEN \* if (!db) return []
                /\ Fails
                /\ calendar' = <<>>
                /\ calPc' = "derived"
                /\ UNCHANGED <<calArticles, calStatuses>>
           ELSE \/ /\ Succeeds
                   /\ calArticles' = ArticleRowsOf(articles)
                   /\ calStatuses' = StatusRowsOf(contentRepurposing)
                   /\ calendar' = deriveCalendarData(calArticles', calStatuses', calDrafts)
                   /\ calPc' = "derived"
                \/ \* a select rejects
                   /\ Fails
                   /\ UNCHANGED <<calArticles, calStatuses, calendar, calPc>>
  /\ UNCHANGED <<newsletterSources, rawEmails, ingestLog, gmailMessages, now, pc, run>>
  /\ UNCHANGED <<calDrafts, inboxVars, statusVars, rateVars>>

\* Two articles in the library, imported by other means than the queue, and
\* at most one draft.
StatusInit ==
  /\ IngestFresh
  /\ calArticles = <<>>
  /\ calStatuses = <<>>
  /\ calDrafts \in {<<>>, <<[articleId |-> 1, format |-> "blog_post"]>>}
  /\ calendar = <<>>
  /\ calPc = "input"
  /\ articles = <<ArticleRow(1, 0), ArticleRow(2, 0)>>
  /\ approve = NoApprove
  /\ inboxReply = NoReply
  /\ inboxCalls = 0
  /\ contentRepurposing = <<>>
  /\ statusCalls = <<>>
  /\ rateLimitBuckets = [key \in RateKeys |-> <<>>]
  /\ rateCalls = <<>>
  /\ bulk = NoBulk

StatusNext ==
  \/ CalendarUpdateStatus
  \/ CalendarGetData

StatusSpec == StatusInit /\ [][StatusNext]_vars

LastCall == statusCalls[Len(statusCalls)]

CallsAnswered(articleId, fmt) ==
  {k \in DOMAIN statusCalls :
     /\ statusCalls[k].articleId = articleId /\ statusCalls[k].format = fmt
     /\ statusCalls[k].outcome = "ok"}
CallsStored(articleId, fmt) ==
  {k \in CallsAnswered(articleId, fmt) : statusCalls[k].stored}
Latest(S) == CHOOSE k \in S : \A j \in S : j <= k

\* content_repurposing holds at most one row per (articleId, format).
OneRowPerSlot ==
  \A i, j \in DOMAIN contentRepurposing :
     (/\ contentRepurposing[i].articleId = contentRepurposing[j].articleId
      /\ contentRepurposing[i].format = contentRepurposing[j].format) => i = j

\* The calendar was read from the rows as they are now.
CalendarIsCurrent ==
  /\ calPc = "derived" /\ calendar # <<>>
  /\ calStatuses = StatusRowsOf(contentRepurposing)

\* C18 as stated: at most one row per (articleId, format), and the calendar
\* shows for a pair the status of the most recent call for it.
C18_CalendarShowsMostRecentCall ==
  /\ OneRowPerSlot
  /\ CalendarIsCurrent =>
        \A i \in DOMAIN calendar : \A fmt \in FormatSet :
           LET calls == CallsAnswered(calendar[i].id, fmt)
           IN calls # {} =>
                 calendar[i].statuses[fmt] = statusCalls[Latest(calls)].status

\* C18 amended: at most one row per (articleId, format), and the calendar
\* shows for a pair the status of the most recent call for it that reached
\* the store; a call made while the store is unavailable returns without
\* error and changes nothing.
C18_CalendarShowsMostRecentStoredCall ==
  /\ OneRowPerSlot
  /\ CalendarIsCurrent =>
        \A i \in DOMAIN calendar : \A fmt \in FormatSet :
           LET calls == CallsStored(calendar[i].id, fmt)
           IN calls # {} =>
                 calendar[i].statuses[fmt] = statusCalls[Latest(calls)].status
  /\ \A k \in DOMAIN statusCalls :
        (statusCalls[k].outcome = "ok" /\ ~statusCalls[k].stored) =>
           statusCalls[k].user # NULL

C18_Witness ==
  /\ CalendarIsCurrent
  /\ Len(contentRepurposing) = 1
  /\ Cardinality(CallsStored(1, "blog_post")) = 2
  /\ \E k \in CallsStored(1, "blog_post") :
        statusCalls[k].status # statusCalls[Latest(CallsStored(1, "blog_post"))].status
  /\ calDrafts # <<>>
  /\ \E i \in DOMAIN calendar :
        /\ calendar[i].id = 1
        /\ calendar[i].statuses["blog_post"] = "untouched"

\* ============================================ C19, C20: the insert loop

\* Run r is inside "for (const msg of newMessages)".
InLoop(r) == pc[r] \in {"insert", "updateSource"}

\* xs lists entries of ys in the order ys has them.
InOrderOf(xs, ys) ==
  \E f \in [DOMAIN xs -> DOMAIN ys] :
     /\ \A i \in DOMAIN xs : xs[i] = ys[f[i]]
     /\ \A i, j \in DOMAIN xs : i < j => f[i] < f[j]

\* A step of run r in which db.insert(rawEmails) rejects.
InsertRejects(r) ==
  /\ pc[r] = "insert"
  /\ run'[r] # run[r]
  /\ rawEmails' = rawEmails

\* C19: when the insert of one new message rejects, the run does not end: it
\* appends exactly one entry to errors, for that message, counts nothing,
\* and goes on to the next new message (or to the audit row after the last
\* one); the new messages are kept in the order of the search result.
C19_InsertFailureIsCaughtPerMessage ==
  /\ [](\A r \in Runs : InLoop(r) =>
          /\ run[r].idx \in DOMAIN run[r].newMessages
          /\ InOrderOf(run[r].newMessages, run[r].messages))
  /\ [][\A r \in Runs : InsertRejects(r) =>
          /\ run'[r].result.errors =
                Append(run[r].result.errors,
                       <<"insert", run[r].newMessages[run[r].idx].id>>)
          /\ run'[r].result.emailsNew = run[r].result.emailsNew
          /\ run'[r].newMessages = run[r].newMessages
          /\ run'[r].idx = run[r].idx + 1
          /\ pc'[r] = IF run[r].idx < Len(run[r].newMessages)
                      THEN "insert" ELSE "log"]_vars

\* A run whose first insert rejected and whose second one was stored.
C19_Witness ==
  \E r \in Runs :
     /\ pc[r] = "done"
     /\ run[r].result.errors = << <<"insert", "g1">> >>
     /\ \E i \in RowsBy(r) : rawEmails[i].gmailMessageId = "g2"

\* The identifiers stored by the runs up to r.
StoredUpTo(r) ==
  {rawEmails[i].gmailMessageId : i \in {k \in DOMAIN rawEmails : rawEmails[k].byRun <= r}}
     \ {NULL}

\* The identifiers run r reported a failure for and that no run up to r stored.
FailedIn(r) ==
  {run[r].result.errors[k][2] : k \in DOMAIN run[r].result.errors} \ StoredUpTo(r)

\* The identifiers run r put through the loop body: stored or reported.
Attempted(r) ==
  {rawEmails[i].gmailMessageId : i \in RowsBy(r)}
     \cup {run[r].result.errors[k][2] : k \in DOMAIN run[r].result.errors}

\* What the search lists for a run called with r's argument over the
\* mailbox as it is.
FoundFor(r) ==
  GmailSearch(gmailMessages, ActiveSources(newsletterSources),
              run[r].maxPerSource * Len(ActiveSources(newsletterSources)))

TimesStored(id) ==
  Cardinality({i \in DOMAIN rawEmails : rawEmails[i].gmailMessageId = id})

\* Run r stored some new messages and failed on others, and run r + 1 ran
\* next over the same mailbox and returned.
RerunAfterPartialFailure(r) ==
  /\ InSuccession(r)
  /\ pc[r] = "done" /\ pc[r + 1] = "done"
  /\ RowsBy(r) # {}
  /\ FailedIn(r) # {}

InFlight(r) == pc[r] # "idle" /\ ~Finished(r)

\* Two invocations are in flight at once.
Overlap == \E r, q \in Runs : r # q /\ InFlight(r) /\ InFlight(q)

\* Two rows carry the same identifier although the mailbox lists none twice.
SharedIdWithoutRepeat ==
  /\ ListsNoIdTwice(gmailMessages)
  /\ \E i, j \in DOMAIN rawEmails :
        /\ i < j
        /\ rawEmails[i].gmailMessageId # NULL
        /\ rawEmails[i].gmailMessageId = rawEmails[j].gmailMessageId

\* A step of run r in which db.insert(rawEmails) stores a row.
InsertStores(r) ==
  /\ pc[r] = "insert"
  /\ run'[r] # run[r]
  /\ rawEmails' # rawEmails

\* C21: in a behaviour where no two runs are ever in flight together, two
\* rows share an identifier only when the search listed it twice; and the
\* insert does not look at the queue again: a run stores every message that
\* passed its own pre-check, whether or not another run stored the same
\* identifier in the meantime.
C21_DedupIsCheckThenInsert ==
  /\ (<>Overlap) \/ [](~SharedIdWithoutRepeat)
  /\ [][\A r \in Runs : InsertStores(r) =>
          /\ Len(rawEmails') = Len(rawEmails) + 1
          /\ SubSeq(rawEmails', 1, Len(rawEmails)) = rawEmails
          /\ rawEmails'[Len(rawEmails')].gmailMessageId =
                run[r].newMessages[run[r].idx].id
          /\ rawEmails'[Len(rawEmails')].byRun = r]_vars

\* Both runs passed the pre-check before either inserted, and both stored g1.
C21_Witness ==
  /\ ListsNoIdTwice(gmailMessages)
  /\ \E i, j \in DOMAIN rawEmails :
        /\ rawEmails[i].byRun = 1 /\ rawEmails[j].byRun = 2
        /\ rawEmails[i].gmailMessageId = "g1"
        /\ rawEmails[j].gmailMessageId = "g1"
  /\ pc[1] = "done" /\ pc[2] = "done"
  /\ run[1].result.errors = <<>> /\ run[2].result.errors = <<>>

\* ============================================ C22: the thread fetch

\* A step of run r in which gmail_read_threads rejects.
ThreadFetchFails(r) ==
  /\ pc[r] = "threads"
  /\ pc'[r] # "threads"
  /\ run'[r].i = run[r].i

\* Run r is in the loop with thread ids it did not fetch.
FetchFailed(r) == InLoop(r) /\ run[r].i < Len(run[r].threadIds)

\* The thread data run r holds for msg: the messages of the thread with
\* msg's id.
Fetched(r, msg) ==
  IF msg.threadId \in DOMAIN run[r].threads
  THEN SelectSeq(run[r].threads[msg.threadId], LAMBDA m : m.id = msg.id)
  ELSE <<>>

\* The text the claim says is stored for msg.
BodyFor(r, msg) ==
  IF Fetched(r, msg) # <<>> /\ Fetched(r, msg)[1].body # NULL
  THEN Fetched(r, msg)[1].body
  ELSE IF Fetched(r, msg) # <<>> /\ Fetched(r, msg)[1].snippet # NULL
  THEN Fetched(r, msg)[1].snippet
  ELSE IF msg.snippet # NULL THEN msg.snippet ELSE ""

LogStep(r) == pc[r] = "log" /\ pc'[r] # "log"

\* C23: whether or not the audit insert is accepted, the run returns, and
\* the IngestResult it returns is the one it held before the insert: counts
\* and errors are the same in both cases. A rejected insert leaves the audit
\* log as it was.
C23_AuditFailureIsSwallowed ==
  [][\A r \in Runs : LogStep(r) =>
       /\ pc'[r] = "done"
       /\ run'[r].result = run[r].result
       /\ run'[r].auditFailed => ingestLog' = ingestLog
       /\ ~run'[r].auditFailed =>
             /\ Len(ingestLog') = Len(ingestLog) + 1
             /\ SubSeq(ingestLog', 1, Len(ingestLog)) = ingestLog]_vars

\* A run that stored a message, met no other failure and could not write
\* its audit row.
C23_Witness ==
  \E r \in Runs :
     /\ pc[r] = "done" /\ run[r].path = "full"
     /\ run[r].auditFailed
     /\ run[r].result.emailsNew = 1
     /\ run[r].result.errors = <<>>
     /\ RowsBy(r) # {}
     /\ LogsBy(r) = {}

\* ===================================== C24: equal and absent timestamps

\* The age the claim gives a status record: zero without updatedAt.
TimeOf(k) ==
  IF calStatuses[k].updatedAt = NullTime THEN 0 ELSE calStatuses[k].updatedAt

\* C24: the status of a slot that has status records is the status of the
\* record with the greatest timestamp, a record without updatedAt counting
\* as timestamp zero, and among records of that timestamp the one that
\* stands first in the input array.
C24_TieGoesToTheEarlierRecord ==
  calPc = "derived" =>
     \A i \in DOMAIN calArticles : \A fmt \in FormatSet :
        LET recs == SlotStatuses(calArticles[i].id, fmt)
        IN \A k \in recs :
              (\A j \in recs \ {k} :
                  \/ TimeOf(j) < TimeOf(k)
                  \/ TimeOf(j) = TimeOf(k) /\ k < j)
                 => calendar[i].statuses[fmt] = calStatuses[k].status

\* Two records of one slot with the same timestamp and different statuses:
\* the first one shows.
C24_Witness ==
  /\ calPc = "derived"
  /\ Len(calStatuses) = 2
  /\ calArticles[1].id = 1
  /\ calStatuses[1].format = "blog_post" /\ calStatuses[2].format = "blog_post"
  /\ calStatuses[1].updatedAt = 1 /\ calStatuses[2].updatedAt = 1
  /\ calStatuses[1].status = "done" /\ calStatuses[2].status = "in_progress"
  /\ calendar[1].statuses["blog_post"] = "done"

\* A record without updatedAt in front of a dated one: the dated one shows.
C24_AbsentLosesToDated ==
  /\ calPc = "derived"
  /\ Len(calStatuses) = 2
  /\ calArticles[1].id = 1
  /\ calStatuses[1].format = "blog_post" /\ calStatuses[2].format = "blog_post"
  /\ calStatuses[1].updatedAt = NullTime /\ calStatuses[2].updatedAt = 1
  /\ calStatuses[1].status = "done" /\ calStatuses[2].status = "in_progress"
  /\ calendar[1].statuses["blog_post"] = "in_progress"

\* ======================================================= rate limiter
\* enforceRateLimit of server/routers.ts, called at the head of
\* articles.importFromUrl, articles.importFromText and drafts.generate with
\* a key of its own and fixed maxRequests and windowMs.

MaxRateCalls == 4  \* enforceRateLimit calls in one behaviour
MaxClock == 4      \* readings the clock goes through

\* params.maxRequests and params.windowMs of the calls made with a key.
RateParams(key) ==
  IF key = "k1" THEN [maxRequests |-> 2, windowMs |-> 2]
  ELSE [maxRequests |-> 1, windowMs |-> 3]

\* Mutant: a timestamp that equals the cutoff still counts.
RecentWithCutoff(existing, cutoff) ==
  SelectSeq(existing, LAMBDA timestamp : timestamp >= cutoff)

\* existing.filter((timestamp) => timestamp > cutoff)
Recent(existing, cutoff) ==
  SelectSeq(existing, LAMBDA timestamp : timestamp > cutoff)

RateCall(key, at, accepted) ==
  [key |-> key, at |-> at, accepted |-> accepted,
   code |-> IF accepted THEN "ok" ELSE "TOO_MANY_REQUESTS"]

\* Date.now() moves on.
ClockTicks ==
  /\ now < MaxClock
  /\ now' = now + 1
  /\ UNCHANGED <<db, newsletterSources, rawEmails, ingestLog, gmailMessages,
                 faults, pc, run>>
  /\ UNCHANGED <<calVars, inboxVars, statusVars, rateVars>>

enforceRateLimit ==
  /\ Len(rateCalls) < MaxRateCalls
  /\ \E key \in RateKeys :
        LET params == RateParams(key)
            cutoff == now - params.windowMs
            recent == Recent(rateLimitBuckets[key], cutoff)
        IN IF Len(recent) >= params.maxRequests
           THEN /\ rateCalls' = Append(rateCalls, RateCall(key, now, FALSE))
                /\ UNCHANGED rateLimitBuckets
           ELSE /\ rateCalls' = Append(rateCalls, RateCall(key, now, TRUE))
                /\ rateLimitBuckets' =
                      [rateLimitBuckets EXCEPT ![key] = Append(recent, now)]
  /\ UNCHANGED ingestVars
  /\ UNCHANGED <<calVars, inboxVars, statusVars>>

RateInit == Init

RateNext ==
  \/ ClockTicks
  \/ enforceRateLimit

RateSpec == RateInit /\ [][RateNext]_vars

\* The accepted calls made with key whose timestamp t has lo < t <= hi.
AcceptedIn(key, lo, hi) ==
  {k \in DOMAIN rateCalls :
     /\ rateCalls[k].key = key /\ rateCalls[k].accepted
     /\ lo < rateCalls[k].at /\ rateCalls[k].at <= hi}

\* C25: for every key and every window of windowMs clock readings, at most
\* maxRequests calls were accepted in the window; a call is rejected with
\* TOO_MANY_REQUESTS exactly when maxRequests accepted calls of its key are
\* newer than now - windowMs; a rejected call leaves every bucket as it was,
\* and an accepted one changes the bucket of its own key only.
C25_RateLimitHolds ==
  /\ [](\A key \in RateKeys : \A hi \in 0 .. MaxClock :
          Cardinality(AcceptedIn(key, hi - RateParams(key).windowMs, hi))
             <= RateParams(key).maxRequests)
  /\ [][Len(rateCalls') = Len(rateCalls) + 1 =>
          LET call == rateCalls'[Len(rateCalls')]
              used == Cardinality(AcceptedIn(call.key,
                                             now - RateParams(call.key).windowMs, now))
          IN /\ call.at = now
             /\ SubSeq(rateCalls', 1, Len(rateCalls)) = rateCalls
             /\ call.accepted <=> used < RateParams(call.key).maxRequests
             /\ call.code = "TOO_MANY_REQUESTS" <=> ~call.accepted
             /\ ~call.accepted => rateLimitBuckets' = rateLimitBuckets
             /\ \A key \in RateKeys \ {call.key} :
                   rateLimitBuckets'[key] = rateLimitBuckets[key]]_vars

\* Key k1 took two calls at reading 0 and refused a third at reading 1,
\* while key k2 was served at reading 1.
C25_Witness ==
  /\ Len(rateCalls) = 4
  /\ \E a, b, c, d \in DOMAIN rateCalls :
        /\ rateCalls[a] = RateCall("k1", 0, TRUE) /\ rateCalls[b] = RateCall("k1", 0, TRUE)
        /\ a # b
        /\ rateCalls[c] = RateCall("k1", 1, FALSE)
        /\ rateCalls[d] = RateCall("k2", 1, TRUE)
  /\ now = 2

\* ======================================= C26: what a run leaves alone

\* Sequence new keeps every entry of old in its place.
Extends(new, old) ==
  /\ Len(new) >= Len(old)
  /\ SubSeq(new, 1, Len(old)) = old

\* C26: a step of a coordinator run keeps every row the queue and the audit
\* log already hold, adds and removes no source, and changes a source row
\* only in lastIngestedAt and totalIngested and only when the source is
\* active.
C26_RunOnlyAppends ==
  [][/\ Extends(rawEmails', rawEmails)
     /\ Extends(ingestLog', ingestLog)
     /\ DOMAIN newsletterSources' = DOMAIN newsletterSources
     /\ \A n \in DOMAIN newsletterSources :
           /\ newsletterSources'[n].id = newsletterSources[n].id
           /\ newsletterSources'[n].emailAddress = newsletterSources[n].emailAddress
           /\ newsletterSources'[n].isActive = newsletterSources[n].isActive
           /\ newsletterSources'[n] # newsletterSources[n]
                 => newsletterSources[n].isActive]_vars

\* Two runs stored a message each and wrote an audit row each; the active
\* source was counted twice and the inactive one is as it was.
C26_Witness ==
  /\ RowsBy(1) # {} /\ RowsBy(2) # {}
  /\ LogsBy(1) # {} /\ LogsBy(2) # {}
  /\ newsletterSources[1].totalIngested = 2
  /\ newsletterSources[2] = SourceRow(2, AddrB, FALSE)

\* ======================================= C27: accounting of the loop

\* C27: when a run leaves the insert loop, emailsNew plus the number of
\* entries in errors is the number of new messages, and emailsNew is the
\* number of rows the run stored.
C27_EachNewMessageCountedOnce ==
  \A r \in Runs :
     (pc[r] = "log" /\ run[r].path = "full") =>
        /\ run[r].result.emailsNew + Len(run[r].result.errors)
              = Len(run[r].newMessages)
        /\ run[r].result.emailsNew = Cardinality(RowsBy(r))

\* =================================== C28: articles made from an entry

\* The articles created from queue entry id.
ArticlesFrom(id) == {a \in DOMAIN articles : articles[a].rawEmailId = id}

\* C28: at most one article is ever created from a queue entry, and an
\* entry that inbox.approve or inbox.bulkProcess marks approved carries the
\* id of an article created from it.
C28_AtMostOneArticlePerEntry ==
  /\ [](\A i \in DOMAIN rawEmails : Cardinality(ArticlesFrom(rawEmails[i].id)) <= 1)
  /\ [][(ApproveFinish \/ BulkEmail) =>
          \A i \in DOMAIN rawEmails :
             (rawEmails'[i] # rawEmails[i] /\ rawEmails'[i].status = "approved") =>
                \E a \in ArticlesFrom(rawEmails[i].id)' :
                   rawEmails'[i].articleId = articles'[a].id]_vars

\* ============================================= C29: inbox.bulkProcess

BulkCounters(b) == b.saved + b.discarded + b.errors

\* What bulkProcess selects: distinct pending entries, at most maxEmails.
BulkSelection ==
  /\ Len(bulk'.pending) <= bulk'.maxEmails
  /\ \A k, l \in DOMAIN bulk'.pending :
        /\ bulk'.pending[k] \in DOMAIN rawEmails
        /\ rawEmails[bulk'.pending[k]].status = "pending"
        /\ k # l => bulk'.pending[k] # bulk'.pending[l]
  /\ rawEmails' = rawEmails

\* The email handled in this step has left pending for one of the three
\* other statuses, and the counter of that status, and no other, went up.
BulkEmailMoved ==
  LET e == bulk'.last
  IN /\ e \in {bulk.pending[k] : k \in DOMAIN bulk.pending}
     /\ rawEmails'[e].status \in {"approved", "discarded", "error"}
     /\ \A i \in DOMAIN rawEmails : i # e => rawEmails'[i] = rawEmails[i]
     /\ bulk'.saved = bulk.saved + (IF rawEmails'[e].status = "approved" THEN 1 ELSE 0)
     /\ bulk'.discarded =
           bulk.discarded + (IF rawEmails'[e].status = "discarded" THEN 1 ELSE 0)
     /\ bulk'.errors = bulk.errors + (IF rawEmails'[e].status = "error" THEN 1 ELSE 0)

\* C29 as stated: the call selects pending entries, at most maxEmails; every
\* email it handles leaves pending for exactly one of approved, discarded
\* and error; a returned call has processed = saved + discarded + errors.
C29_BulkMovesEverySelectedEmail ==
  /\ [](bulk.pc = "returned" => Len(bulk.pending) = BulkCounters(bulk))
  /\ [][BulkStart => BulkSelection]_vars
  /\ [][BulkEmail => BulkEmailMoved]_vars

\* C29 amended: the same for every email whose status write is accepted and
\* for every call that returns. When the write of the catch block is
\* rejected as well, the email keeps its status, no counter moves and the
\* call fails without counters.
C29_BulkMovesEveryEmailItCanWrite ==
  /\ [](bulk.pc = "returned" => Len(bulk.pending) = BulkCounters(bulk))
  /\ [][BulkStart => BulkSelection]_vars
  /\ [][BulkEmail =>
          IF bulk'.lastRejected
          THEN /\ rawEmails' = rawEmails
               /\ BulkCounters(bulk') = BulkCounters(bulk)
               /\ bulk'.pc # "returned"
          ELSE BulkEmailMoved]_vars

\* A call with batchSize 1 that went through two batches and returned: one
\* email saved as an article, one discarded.
C29_Witness ==
  /\ bulk.pc = "returned"
  /\ bulk.batchSize = 1
  /\ Len(bulk.pending) = 2
  /\ bulk.saved = 1 /\ bulk.discarded = 1 /\ bulk.errors = 0
  /\ \E k, l \in DOMAIN bulk.pending :
        /\ rawEmails[bulk.pending[k]].status = "approved"
        /\ rawEmails[bulk.pending[l]].status = "discarded"

\* ============================================= C30: inbox.approve, LLM failure

\* The step of inbox.approve in which the extraction failed.
ExtractionFailed == ApproveExtract /\ approve' = NoApprove

\* The entry of the call in hand is marked error, with the message.
MarkedError ==
  /\ rawEmails'[approve.id].status = "error"
  /\ rawEmails'[approve.id].errorMessage = LLMExtractionFailed
  /\ \A i \in DOMAIN rawEmails : i # approve.id => rawEmails'[i] = rawEmails[i]

\* An approve that succeeds leaves its entry approved, linked to an article
\* made from it.
ApprovedWithArticle ==
  (ApproveFinish /\ inboxReply'.code = "ok") =>
     /\ rawEmails'[approve.id].status = "approved"
     /\ \E a \in DOMAIN articles' :
           /\ articles'[a].id = rawEmails'[approve.id].articleId
           /\ articles'[a].rawEmailId = approve.id

\* C30 as stated: a failed extraction marks the email error with a message,
\* creates no article and fails the call with INTERNAL_SERVER_ERROR; a later
\* successful approve leaves the email approved with a linked article.
C30_FailedExtractionMarksError ==
  /\ [][ExtractionFailed =>
          /\ MarkedError
          /\ articles' = articles
          /\ inboxReply' = Reply("approve", "INTERNAL_SERVER_ERROR", approve.id)]_vars
  /\ [][ApprovedWithArticle]_vars

\* C30 amended: a failed extraction creates no article and fails the call;
\* the email is marked error, and the failure is the INTERNAL_SERVER_ERROR
\* of the handler, when the status write of the catch block is accepted.
\* When that write is rejected the email keeps its status and the call
\* fails with the rejection.
C30_FailedExtractionMarksErrorIfWritten ==
  /\ [][ExtractionFailed =>
          /\ articles' = articles
          /\ inboxReply'.op = "approve" /\ inboxReply'.id = approve.id
          /\ \/ /\ inboxReply'.code = "INTERNAL_SERVER_ERROR"
                /\ MarkedError
             \/ /\ inboxReply'.code = "error"
                /\ faults' = faults + 1
                /\ rawEmails' = rawEmails]_vars
  /\ [][ApprovedWithArticle]_vars

\* An entry approved by a call that succeeded, linked to its article, that
\* still bears the message of an earlier failed extraction.
C30_Witness ==
  /\ inboxReply.op = "approve" /\ inboxReply.code = "ok"
  /\ LET e == rawEmails[inboxReply.id]
     IN /\ e.status = "approved"
        /\ e.errorMessage = LLMExtractionFailed
        /\ \E a \in DOMAIN articles :
              articles[a].id = e.articleId /\ articles[a].rawEmailId = e.id
        /\ Len(articles) = 1
====
